---- MODULE Spec2Model ----
(***************************************************************************)
(* A model of the assembly-calculus brain of this repository:              *)
(*   - the projection engine, brain/connectome/connectome.py               *)
(*     (Connectome.project, _project_into, update_connectomes,             *)
(*     update_winners),                                                    *)
(*   - the brain, brain/brain.py (next_round, enable, disable, the         *)
(*     binding scope __enter__ / __exit__),                                *)
(*   - the binding of parameters, utils/bindable.py (bind, unbind).        *)
(* Weights are kept as exact integers: the initial entries are 0 or 1 and  *)
(* the betas of the sampled parts are whole numbers, so that every         *)
(* product (1 + beta) * w is exact.                                        *)
(***************************************************************************)
EXTENDS Integers, Sequences, FiniteSets, TLC

(* ------------------------------ bounds -------------------------------- *)

\* Projection rounds performed on one brain before the model stops.
MaxRounds == 2
\* Scope events (enter, exit) in one behaviour.
MaxEvents == 5
\* Assemblies constructed in one behaviour.
MaxAssemblies == 3
\* Assembly operations performed on one brain.
MaxOps == 2
\* Entries of a recording after which no further operation is recorded.
MaxEntries == 2
\* Brains baked from the recipe.
MaxBakes == 2
\* Nested entries of the recipe's scope.
MaxDepth == 1
\* Calls of fire_many on one brain.
MaxFires == 2
\* Rows of the matrix the kernel is asked for.
MaxHeight == 4
\* Workers of the kernel.
MaxThreads == 3
\* Entries of the connectome's lists of areas and stimuli together.
MaxParts == 5
\* Calls of recipe.initialize on a brain baked before.
MaxInitializations == 1

(* ------------------------------- parts -------------------------------- *)

Areas == {"a", "b"}
Stimuli == {"s"}
Parts == Areas \cup Stimuli

\* Sampled constructor arguments Area(n, k, beta) and Stimulus(n, beta).
Configs ==
    { [n |-> [a |-> 2, b |-> 2, s |-> 1], k |-> [a |-> 1, b |-> 1],
       beta |-> [a |-> 1, b |-> 2, s |-> 3]],
      [n |-> [a |-> 3, b |-> 2, s |-> 2], k |-> [a |-> 2, b |-> 2],
       beta |-> [a |-> 1, b |-> 0, s |-> 1]] }

VARIABLES
    n,                   \* part -> number of neurons (Area.n, Stimulus.n)
    k,                   \* area -> winner quota (Area.k)
    beta,                \* part -> plasticity coefficient (beta)
    areas,               \* Connectome.areas, a list
    stimuli,             \* Connectome.stimuli, a list
    W,                   \* <<source, dest>> -> synapses[i][j] (Connectome.connections)
    winners,             \* area -> set of indices (Connectome._winners)
    plasticity_disabled, \* AbstractConnectome._plasticity_disabled
    active,              \* Brain.active_connectome, a dict part -> set of parts
    lastCall,            \* history: the operation performed last and its arguments
    lastConn,            \* history: the connections the last call handed to project
    lastRounds,          \* history: how often the last call invoked project
    nrounds,             \* history: rounds performed so far
    targeted,            \* history: the areas some completed round projected into
    bound,               \* area or assembly -> _bound_params['brain'], or Unbound
    ctx_stack,           \* brain -> Brain.ctx_stack, a list of dicts
    open,                \* history: the open scopes, each with the bindings before it
    proper,              \* history: every exit so far closed the innermost open scope
    trace,               \* history: the scope events so far
    hist,                \* UniquelyIdentifiable.hist, a dict uid argument -> _uid
    created,             \* the assemblies constructed so far, in order
    next_uuid,           \* the value the next uuid.uuid4() returns
    repeat,              \* Brain.repeat
    nops,                \* history: assembly operations performed so far
    lastOp,              \* history: the assembly operation performed last
    lastRead,            \* history: what the last read returned
    actions,             \* Recording.actions of the recipe's initialization
    recording_bound,     \* the recipe's assemblies are bound to the recording
    recipe_ctx_stack,    \* BrainRecipe.ctx_stack
    baked,               \* the brains bake has returned, in order
    played,              \* history: the calls of the last bake's replay
    lastBake,            \* history: the arguments of the last bake
    lastInitialize,      \* history: the last recipe.initialize(brain) of a baked brain
    twinW,               \* the connections of a second brain of the same bake arguments
    twinWinners,         \* the winners of the second brain
    nfires,              \* fire_many calls made so far
    lastFire,            \* history: the last call of fire_many
    height,              \* multi_generate: rows of the matrix asked for
    threads,             \* Multithreaded._threads
    submitted,           \* Multithreaded.__call__: workers submitted so far
    row,                 \* worker -> the next row of its band it writes
    writes,              \* row of out -> how many times it has been written
    returned             \* multi_generate has returned the matrix

vars == <<n, k, beta, areas, stimuli, W, winners, plasticity_disabled, active,
          lastCall, lastConn, lastRounds, nrounds, targeted,
          bound, ctx_stack, open, proper, trace,
          hist, created, next_uuid, repeat, nops, lastOp, lastRead,
          actions, recording_bound, recipe_ctx_stack, baked, played, lastBake,
          lastInitialize,
          twinW, twinWinners, nfires, lastFire,
          height, threads, submitted, row, writes, returned>>

(* ------------------------------ helpers ------------------------------- *)

Indices(m) == 0 .. (m - 1)

RECURSIVE SumOver(_, _)
SumOver(S, f) ==
    IF S = {} THEN 0
    ELSE LET x == CHOOSE y \in S : TRUE
         IN  f[x] + SumOver(S \ {x}, f)

\* dict.get(key, set()) / defaultdict lookup without insertion.
Get(d, key) == IF key \in DOMAIN d THEN d[key] ELSE {}

\* The edges (source, dest) a dict source -> destinations holds.
Edges(d) == { <<s, t>> \in (DOMAIN d) \X Parts : t \in d[s] }

EmptyDict == [p \in {} |-> {}]

(* ------------------------ random matrix kernel ------------------------ *)

Ord(p) == CASE p = "a" -> 0 [] p = "b" -> 1 [] p = "s" -> 2

\* One Bernoulli(p) draw of the kernel. The kernel is a seeded generator, so
\* a matrix is a function of the stream: stream 0 stands for p = 0, stream 1
\* for p = 1, the other streams for draws with 0 < p < 1.
Bernoulli(seed, s, d, i, j) ==
    CASE seed = 0 -> 0
      [] seed = 1 -> 1
      [] OTHER -> (seed + i + j + Ord(s) + Ord(d)) % 2

\* Connectome._initialize_connection: a part.n x area.n matrix of draws.
InitializeConnection(seed, nn, s, d) ==
    [i \in Indices(nn[s]) |-> [j \in Indices(nn[d]) |-> Bernoulli(seed, s, d, i, j)]]

\* Connectome._initialize_parts after Brain.__init__ has added the areas and
\* then the stimuli of the recipe: a part is connected to every part the
\* connectome holds when it is added (itself included), and an area is also
\* the destination of each of them. Every connection into an area exists,
\* and so does every connection of a stimulus into a stimulus.
InitializeParts(seed, nn) ==
    [e \in (Parts \X Areas) \cup (Stimuli \X Stimuli) |->
        InitializeConnection(seed, nn, e[1], e[2])]

(* ------------------------- projection engine -------------------------- *)

\* Connectome.project, the inversion of the edge map: each destination area
\* mapped to its sources. Only areas that receive input are keys.
SourcesMapping(conn) ==
    LET to_update == UNION { conn[p] : p \in DOMAIN conn }
    IN  [d \in to_update |-> { p \in DOMAIN conn : d \in conn[p] }]

\* Connectome._project_into, the total input of every neuron of the area: for
\* a source area the rows of its current winners, for a stimulus the sum of
\* every row (the column sum).
PrevWinnerInputs(w, win, area, sources) ==
    LET src_areas == sources \cap Areas
        src_stimuli == sources \cap Stimuli
    IN  [j \in Indices(n[area]) |->
            SumOver(src_areas,
                    [src \in src_areas |->
                        SumOver(win[src],
                                [x \in win[src] |-> w[<<src, area>>][x][j]])])
          + SumOver(src_stimuli,
                    [stim \in src_stimuli |->
                        SumOver(Indices(n[stim]),
                                [i \in Indices(n[stim]) |-> w[<<stim, area>>][i][j]])])]

\* A slip of the slice bound: argpartition(inputs, m - q)[m - q + 1:].
ArgPartitionTailShort(inputs, m, q) ==
    { T \in SUBSET Indices(m) :
        /\ Cardinality(T) = q - 1
        /\ \A i \in T : \A j \in Indices(m) \ T : inputs[i] >= inputs[j] }

\* np.argpartition(inputs, m - q)[-q:]: the entry at position m - q is the one
\* a full sort would put there, no entry before it is larger and no entry
\* after it is smaller. Which of several equal entries lands on which side is
\* left open by the partial sort, so every such set of q indices is an outcome.
ArgPartitionTail(inputs, m, q) ==
    { T \in SUBSET Indices(m) :
        /\ Cardinality(T) = q
        /\ \A i \in T : \A j \in Indices(m) \ T : inputs[i] >= inputs[j] }

\* Connectome._project_into: the possible new winners of the area.
ProjectInto(w, win, area, sources) ==
    ArgPartitionTail(PrevWinnerInputs(w, win, area, sources), n[area], k[area])

\* Connection.beta: the effective plasticity a connection reports.
ConnectionBeta(source, dest) ==
    IF source \in Stimuli THEN beta[dest] ELSE beta[source]

\* A slip: the coefficient always taken from the destination.
UpdateBetaOfDest(source, area) == beta[area]

\* A slip of the sign: the product is taken with 1 - beta.
UpdateBetaNegated(source, area) ==
    0 - (IF source \in Areas THEN beta[source] ELSE beta[area])

\* Connectome.update_connectomes, the coefficient of one connection.
UpdateBeta(source, area) ==
    IF source \in Areas THEN beta[source] ELSE beta[area]

\* A slip: the type of the source is not looked at, every row is multiplied.
SourceNeuronsEveryRow(win, source) == Indices(n[source])

\* Connectome.update_connectomes, the rows that are multiplied.
SourceNeurons(win, source) ==
    IF source \in Stimuli THEN Indices(n[source]) ELSE win[source]

\* A slip: the multiplication is applied whatever the plasticity switch says.
UpdateConnectomesAlways(w, win, new_winners, sources, disabled) ==
    [e \in DOMAIN w |->
        IF e[2] \in DOMAIN new_winners /\ e[1] \in sources[e[2]]
        THEN [i \in DOMAIN w[e] |->
                [j \in DOMAIN w[e][i] |->
                    IF i \in SourceNeurons(win, e[1]) /\ j \in new_winners[e[2]]
                    THEN w[e][i][j] * (1 + UpdateBeta(e[1], e[2]))
                    ELSE w[e][i][j]]]
        ELSE w[e]]

\* Connectome.update_connectomes: synapses[source_neurons, new_winners] *= 1 + beta
\* for every source of every area that has new winners.
UpdateConnectomes(w, win, new_winners, sources, disabled) ==
    IF disabled THEN w
    ELSE [e \in DOMAIN w |->
            IF e[2] \in DOMAIN new_winners /\ e[1] \in sources[e[2]]
            THEN [i \in DOMAIN w[e] |->
                    [j \in DOMAIN w[e][i] |->
                        IF i \in SourceNeurons(win, e[1]) /\ j \in new_winners[e[2]]
                        THEN w[e][i][j] * (1 + UpdateBeta(e[1], e[2]))
                        ELSE w[e][i][j]]]
            ELSE w[e]]

\* Connectome.update_winners.
UpdateWinners(win, new_winners, sources) ==
    [a \in DOMAIN win |-> IF a \in DOMAIN sources THEN new_winners[a] ELSE win[a]]

\* A slip: the winners of an area are stored as soon as they are computed, so
\* an area processed later reads them.
RECURSIVE CommitEarly(_, _, _, _)
CommitEarly(w, win, sources_mapping, todo) ==
    IF todo = {} THEN {win}
    ELSE LET d == CHOOSE x \in todo : TRUE
         IN  UNION { CommitEarly(w, [win EXCEPT ![d] = T], sources_mapping, todo \ {d}) :
                        T \in ProjectInto(w, win, d, sources_mapping[d]) }

ProjectCommitEarly(w, win, disabled, conn) ==
    LET sources_mapping == SourcesMapping(conn)
    IN  { [W |-> UpdateConnectomes(w, win, [d \in DOMAIN sources_mapping |-> after[d]],
                                   sources_mapping, disabled),
           winners |-> after] :
            after \in CommitEarly(w, win, sources_mapping, DOMAIN sources_mapping) }

\* Connectome.project: the states one round can end in. The new winners of
\* every destination are computed first, then the weights are updated, then
\* the winners are stored.
Project(w, win, disabled, conn) ==
    LET sources_mapping == SourcesMapping(conn)
        options == [d \in DOMAIN sources_mapping |->
                        ProjectInto(w, win, d, sources_mapping[d])]
        choices == { nw \in [DOMAIN sources_mapping -> UNION { options[d] : d \in DOMAIN sources_mapping }] :
                        \A d \in DOMAIN sources_mapping : nw[d] \in options[d] }
    IN  { [W |-> UpdateConnectomes(w, win, nw, sources_mapping, disabled),
           winners |-> UpdateWinners(win, nw, sources_mapping)] : nw \in choices }

\* project invoked r times in succession with the same connections.
RECURSIVE ProjectTimes(_, _, _, _)
ProjectTimes(S, disabled, conn, r) ==
    IF r = 0 THEN S
    ELSE ProjectTimes(UNION { Project(st.W, st.winners, disabled, conn) : st \in S },
                      disabled, conn, r - 1)

(* -------------------------------- brain ------------------------------- *)

\* The subconnectome argument of next_round: absent (None) or a dict.
NoSubconnectome == [given |-> FALSE, map |-> EmptyDict]

Dict(m) == [given |-> TRUE, map |-> m]

\* Sampled subconnectome arguments.
Subconnectomes ==
    { NoSubconnectome,
      Dict(EmptyDict),
      Dict([p \in {"b"} |-> {}]),
      Dict([p \in {"s"} |-> {"a"}]),
      Dict([p \in {"a"} |-> {"b"}]),
      Dict([p \in {"s"} |-> {"a", "b"}]),
      Dict([p \in {"s", "a"} |-> IF p = "s" THEN {"a"} ELSE {"b"}]),
      Dict([p \in {"s", "a"} |-> {"b"}]) }

\* Sampled iterations arguments: none and more than one (iterations = 1
\* performs the one round that iterations = 0 performs).
Iterations == {0, 2}

\* Sampled streams of the random matrix kernel.
Seeds == {2}

\* Brain.next_round, the dict handed to project (_active_connectome).
ActiveConnectomeOf(act, sub, replace) ==
    IF replace \/ ~sub.given
    THEN IF sub.given /\ DOMAIN sub.map # {} THEN sub.map ELSE act
    ELSE LET touched == { s \in DOMAIN sub.map : sub.map[s] # {} }
         IN  [p \in DOMAIN act \cup touched |-> Get(act, p) \cup Get(sub.map, p)]

\* A slip: the edges handed to the round are disabled when it returns.
ActiveAfterNextRoundDisabling(act, sub, replace) ==
    IF replace \/ ~sub.given
    THEN act
    ELSE [p \in DOMAIN act |-> act[p] \ Get(sub.map, p)]

\* Brain.next_round, the brain's own dict when the call returns: copy() is
\* shallow, so the sets of the keys the brain already holds are shared with
\* the copy and receive the added destinations; new keys stay in the copy.
ActiveAfterNextRound(act, sub, replace) ==
    IF replace \/ ~sub.given
    THEN act
    ELSE [p \in DOMAIN act |-> act[p] \cup Get(sub.map, p)]

\* Brain.next_round, the number of project invocations: iterations - 1 in the
\* loop and one more in the return statement.
ProjectCalls(iterations) ==
    (IF iterations - 1 > 0 THEN iterations - 1 ELSE 0) + 1

\* Brain.enable(source, dest) with a destination, on the dict.
EnableEdge(act, source, dest) ==
    [p \in DOMAIN act \cup {source} |->
        IF p = source THEN Get(act, p) \cup {dest} ELSE act[p]]

\* Brain.__init__ / Brain.add_area: every area of the recipe is enabled into
\* itself.
RECURSIVE AddAreas(_, _)
AddAreas(act, todo) ==
    IF todo = {} THEN act
    ELSE LET area == CHOOSE x \in todo : TRUE
         IN  AddAreas(EnableEdge(act, area, area), todo \ {area})

\* Python's None.
None == "None"

\* Brain.support: the property returns None, whatever rounds were performed.
support == None

(* --------------------------- binding scopes --------------------------- *)

Brains == {"B1", "B2"}

\* The recipes of the brains as constructed: BrainRecipe(a, b, s, x, y, z) for
\* B1 and BrainRecipe(a, s, x, y) for B2.
RecipeGivenAreas == [b \in Brains |-> IF b = "B1" THEN {"a", "b"} ELSE {"a"}]
RecipeAssemblies == [b \in Brains |-> IF b = "B1" THEN {"x", "y", "z"} ELSE {"x", "y"}]

\* The area each sampled assembly lives in (Assembly.area).
AssemblyArea == [x |-> "a", y |-> "b", z |-> "a"]

\* BrainRecipe.areas: the areas given and, through _add_assembly, the area of
\* every assembly of the recipe.
RecipeAreas ==
    [b \in Brains |-> RecipeGivenAreas[b] \cup { AssemblyArea[q] : q \in RecipeAssemblies[b] }]

Bindables == UNION { RecipeAreas[b] \cup RecipeAssemblies[b] : b \in Brains }

\* 'brain' not in bound_params.
Unbound == "unbound"

\* Bindable.bind(brain = value) on every part of the set.
Bind(bnd, parts, value) ==
    [p \in DOMAIN bnd |-> IF p \in parts THEN value ELSE bnd[p]]

\* Bindable.unbind('brain') on every part of the set.
Unbind(bnd, parts) ==
    [p \in DOMAIN bnd |-> IF p \in parts THEN Unbound ELSE bnd[p]]

\* A slip: the binding is recorded after the part has been bound to the brain.
CurrentCtxStackAfterBind(b, bnd) ==
    [p \in RecipeAreas[b] \cup RecipeAssemblies[b] |-> b]

\* Brain.__enter__, the dict current_ctx_stack: the binding of every area and
\* assembly of the recipe that has one.
CurrentCtxStack(b, bnd) ==
    [p \in { q \in RecipeAreas[b] \cup RecipeAssemblies[b] : bnd[q] # Unbound } |-> bnd[p]]

\* Brain.__enter__, the bindings when it returns.
BoundAfterEnter(b, bnd) ==
    Bind(Bind(bnd, RecipeAreas[b], b), RecipeAssemblies[b], b)

\* Brain.__exit__, the bindings when it returns: every part of the recipe is
\* unbound and, when the popped dict holds it, bound to the value kept there.
BoundAfterExit(b, bnd, current_ctx_stack) ==
    [p \in DOMAIN bnd |->
        IF p \in RecipeAreas[b] \cup RecipeAssemblies[b]
        THEN IF p \in DOMAIN current_ctx_stack THEN current_ctx_stack[p] ELSE Unbound
        ELSE bnd[p]]

\* The position of the innermost open scope of the brain (0 when none).
InnermostOf(b, scopes) ==
    IF \E i \in 1 .. Len(scopes) : scopes[i].brain = b
    THEN CHOOSE i \in 1 .. Len(scopes) :
            /\ scopes[i].brain = b
            /\ \A j \in (i + 1) .. Len(scopes) : scopes[j].brain # b
    ELSE 0

Without(seq, i) == [j \in 1 .. (Len(seq) - 1) |-> IF j < i THEN seq[j] ELSE seq[j + 1]]

(* ------------------------------- actions ------------------------------ *)

\* The orders in which Brain.__init__ can add the areas: it iterates over
\* recipe.areas, a set of objects hashed by their random _uid.
AreaOrders == { <<"a", "b">>, <<"b", "a">> }

\* The connectome and the brain after Brain(Connectome(p), recipe).
EngineInit(c, seed) ==
    /\ n = c.n /\ k = c.k /\ beta = c.beta
    /\ areas \in AreaOrders
    /\ stimuli = <<"s">>
    /\ W = InitializeParts(seed, c.n)
    /\ winners = [a \in Areas |-> {}]
    /\ plasticity_disabled = FALSE
    /\ active = AddAreas(EmptyDict, Areas)
    /\ lastCall = [op |-> "init", given |-> FALSE, subEdges |-> {},
                   replace |-> FALSE, iterations |-> 1]
    /\ lastConn = EmptyDict
    /\ lastRounds = 0
    /\ nrounds = 0
    /\ targeted = {}

\* No part is bound and no scope is open.
ScopeInit ==
    /\ bound = [p \in Bindables |-> Unbound]
    /\ ctx_stack = [b \in Brains |-> <<>>]
    /\ open = <<>>
    /\ proper = TRUE
    /\ trace = <<>>

\* The scope variables inside `with brain:`, entered with no part bound.
ScopeEntered(b) ==
    /\ bound = BoundAfterEnter(b, [p \in Bindables |-> Unbound])
    /\ ctx_stack = [c \in Brains |->
                      IF c = b THEN <<CurrentCtxStack(b, [p \in Bindables |-> Unbound])>>
                      ELSE <<>>]
    /\ open = <<[brain |-> b, before |-> [p \in Bindables |-> Unbound]]>>
    /\ proper = TRUE
    /\ trace = << <<"enter", b>> >>

engine_vars == <<n, k, beta, areas, stimuli, W, winners, plasticity_disabled, active,
                 lastCall, lastConn, lastRounds, nrounds, targeted>>
scope_vars == <<bound, ctx_stack, open, proper, trace>>
identity_vars == <<hist, created, next_uuid>>
operation_vars == <<repeat, nops, lastOp, lastRead>>
recording_vars == <<actions, recording_bound, recipe_ctx_stack, baked, played, lastBake,
                    lastInitialize>>
twin_vars == <<twinW, twinWinners>>
fire_vars == <<nfires, lastFire>>
kernel_vars == <<height, threads, submitted, row, writes, returned>>
layer_vars == <<identity_vars, operation_vars, recording_vars, twin_vars,
                fire_vars, kernel_vars>>

\* No assembly has been constructed: the registry is empty. The stimulus has
\* drawn _uid 0, so the first assembly draws 1.
IdentityInit ==
    /\ hist = <<>>
    /\ created = <<>>
    /\ next_uuid = 1

\* Brain(connectome, recipe): repeat is 1 and no operation has run.
OperationInit ==
    /\ repeat = 1
    /\ nops = 0
    /\ lastOp = [op |-> "none", a |-> <<>>, b |-> <<>>, area |-> "a",
                 identified |-> <<>>, start |-> [x \in Areas |-> {}]]
    /\ lastRead = [kind |-> "none", assembly |-> "none", score |-> <<0, 1>>, best |-> <<0, 1>>]

\* BrainRecipe.__init__: an empty recording, no scope entered, nothing baked.
RecordingInit ==
    /\ actions = <<>>
    /\ recording_bound = FALSE
    /\ recipe_ctx_stack = <<>>
    /\ baked = <<>>
    /\ played = <<>>
    /\ lastBake = [brain |-> 0, train_repeat |-> 0, effective_repeat |-> 0, before |-> <<>>]
    /\ lastInitialize = [brain |-> 0, calls |-> 0, played |-> <<>>]

\* No second brain has been baked.
NoTwin ==
    /\ twinW = <<>>
    /\ twinWinners = <<>>

\* fire_many has not been called.
FireInit ==
    /\ nfires = 0
    /\ lastFire = [op |-> "none"]

\* No matrix is being generated.
NoKernel ==
    /\ height = 0
    /\ threads = 1
    /\ submitted = 0
    /\ row = <<>>
    /\ writes = <<>>
    /\ returned = FALSE

LayerInit ==
    /\ IdentityInit
    /\ OperationInit
    /\ RecordingInit
    /\ NoTwin
    /\ FireInit
    /\ NoKernel

Init ==
    /\ \E c \in Configs : \E seed \in Seeds : EngineInit(c, seed)
    /\ ScopeInit
    /\ LayerInit

\* Brain.next_round(subconnectome, replace, iterations).
NextRound(sub, replace, iterations) ==
    LET conn == ActiveConnectomeOf(active, sub, replace)
        r == ProjectCalls(iterations)
    IN  /\ nrounds + r <= MaxRounds
        /\ \E st \in ProjectTimes({[W |-> W, winners |-> winners]},
                                  plasticity_disabled, conn, r) :
              /\ W' = st.W
              /\ winners' = st.winners
        /\ active' = ActiveAfterNextRound(active, sub, replace)
        /\ lastCall' = [op |-> "next_round", given |-> sub.given,
                        subEdges |-> Edges(sub.map), replace |-> replace,
                        iterations |-> iterations]
        /\ lastConn' = conn
        /\ lastRounds' = r
        /\ nrounds' = nrounds + r
        /\ targeted' = targeted \cup DOMAIN SourcesMapping(conn)
        /\ UNCHANGED <<n, k, beta, areas, stimuli, plasticity_disabled>>
        /\ UNCHANGED <<scope_vars, layer_vars>>

\* AbstractConnectome.plasticity_disabled, the setter.
SetPlasticityDisabled(value) ==
    /\ value # plasticity_disabled
    /\ plasticity_disabled' = value
    /\ UNCHANGED <<n, k, beta, areas, stimuli, W, winners, active,
                   lastCall, lastConn, lastRounds, nrounds, targeted>>
    /\ UNCHANGED <<scope_vars, layer_vars>>

\* What a call other than next_round leaves in the history of the last call.
LastOther(op) ==
    [op |-> op, given |-> FALSE, subEdges |-> {}, replace |-> FALSE, iterations |-> 1]

\* connectome.winners[area] = value: MappingProxy.__setitem__ hands the value
\* to Connectome._set_winners, which stores it as it is.  The explored calls
\* are the ones on a brain that has not performed a round yet.
SetWinners(area, value) ==
    /\ nrounds = 0
    /\ value # winners[area]
    /\ winners' = [winners EXCEPT ![area] = value]
    /\ lastCall' = LastOther("set_winners")
    /\ UNCHANGED <<n, k, beta, areas, stimuli, W, plasticity_disabled, active,
                   lastConn, lastRounds, nrounds, targeted>>
    /\ UNCHANGED <<scope_vars, layer_vars>>

\* Sampled value of the winners setter on an area: two neurons, more than
\* the quota of an area with k = 1.
WinnerValues == { {0, 1} }

\* connectome.project(connections) called on the connectome itself: one
\* round, the brain's active connectome is not involved.
ProjectDirect(conn) ==
    /\ nrounds + 1 <= MaxRounds
    /\ \E st \in Project(W, winners, plasticity_disabled, conn) :
          /\ W' = st.W
          /\ winners' = st.winners
    /\ lastCall' = LastOther("project")
    /\ lastConn' = conn
    /\ lastRounds' = 1
    /\ nrounds' = nrounds + 1
    /\ targeted' = targeted \cup DOMAIN SourcesMapping(conn)
    /\ UNCHANGED <<n, k, beta, areas, stimuli, plasticity_disabled, active>>
    /\ UNCHANGED <<scope_vars, layer_vars>>

\* Sampled arguments of project: a stimulus into an area, an area into the
\* other, both at once.
Connections ==
    { [p \in {"s"} |-> {"a"}],
      [p \in {"a"} |-> {"b"}],
      [p \in {"s", "a"} |-> IF p = "s" THEN {"a"} ELSE {"b"}] }

Next ==
    \/ \E sub \in Subconnectomes, replace \in BOOLEAN, iterations \in Iterations :
          NextRound(sub, replace, iterations)
    \/ \E value \in BOOLEAN : SetPlasticityDisabled(value)
    \/ \E area \in Areas, value \in WinnerValues : SetWinners(area, value)
    \/ \E conn \in Connections : ProjectDirect(conn)

Spec == Init /\ [][Next]_vars

\* Brain.__enter__.
Enter(b) ==
    /\ Len(trace) < MaxEvents
    /\ ctx_stack' = [ctx_stack EXCEPT ![b] = Append(@, CurrentCtxStack(b, bound))]
    /\ bound' = BoundAfterEnter(b, bound)
    /\ open' = Append(open, [brain |-> b, before |-> bound])
    /\ trace' = Append(trace, <<"enter", b>>)
    /\ UNCHANGED proper
    /\ UNCHANGED <<engine_vars, layer_vars>>

\* Brain.__exit__ of a brain that has been entered.
Exit(b) ==
    /\ Len(trace) < MaxEvents
    /\ ctx_stack[b] # <<>>
    /\ LET current_ctx_stack == ctx_stack[b][Len(ctx_stack[b])]
       IN  bound' = BoundAfterExit(b, bound, current_ctx_stack)
    /\ ctx_stack' = [ctx_stack EXCEPT ![b] = SubSeq(@, 1, Len(@) - 1)]
    /\ open' = Without(open, InnermostOf(b, open))
    /\ proper' = (proper /\ open[Len(open)].brain = b)
    /\ trace' = Append(trace, <<"exit", b>>)
    /\ UNCHANGED <<engine_vars, layer_vars>>

ScopeNext ==
    \/ \E b \in Brains : Enter(b)
    \/ \E b \in Brains : Exit(b)

\* Two brains built over one population of parts, with Connectome(p = 0).
InitScope ==
    /\ \E c \in Configs : EngineInit(c, 0)
    /\ ScopeInit
    /\ LayerInit

\* The scopes of two brains over one population of parts.
SpecScope == InitScope /\ [][ScopeNext]_vars

(* ---------------------------- fire protocol --------------------------- *)

\* The assemblies of the sampled recipe: x and y are projections of the
\* stimulus, z is a projection of y into the area of x.
AssemblyNames == {"x", "y", "z"}

\* Assembly.parents.
AssemblyParents == [x |-> <<"s">>, y |-> <<"s">>, z |-> <<"y">>]

\* The state of one brain as the operations below pass it on.
BrainState(w, win, act, disabled, rounds, dests, last) ==
    [W |-> w, winners |-> win, active |-> act, disabled |-> disabled,
     rounds |-> rounds, targeted |-> dests, last |-> last]

\* What a call of next_round leaves in the history of the last call.
LastCallOf(sub, replace, iterations, conn) ==
    [call |-> [op |-> "next_round", given |-> sub.given, subEdges |-> Edges(sub.map),
               replace |-> replace, iterations |-> iterations],
     conn |-> conn, rounds |-> ProjectCalls(iterations)]

\* dict.get(key, []) on a dict kept as a sequence of <<key, value>> entries in
\* insertion order.
LayerGet(layer, key) ==
    IF \E i \in 1 .. Len(layer) : layer[i][1] = key
    THEN layer[CHOOSE i \in 1 .. Len(layer) : layer[i][1] = key][2]
    ELSE {}

\* dict[key] = value: an existing key keeps its position.
LayerSet(layer, key, value) ==
    IF \E i \in 1 .. Len(layer) : layer[i][1] = key
    THEN [i \in 1 .. Len(layer) |-> IF layer[i][1] = key THEN <<key, value>> ELSE layer[i]]
    ELSE Append(layer, <<key, value>>)

\* fire_many, the inner loop over the parents of one assembly:
\* current_layer[parent] = current_layer.get(ass, []) + [ass.area].
RECURSIVE AddParents(_, _, _)
AddParents(current_layer, ass, parents) ==
    IF parents = <<>> THEN current_layer
    ELSE AddParents(LayerSet(current_layer, Head(parents),
                             LayerGet(current_layer, ass) \cup {AssemblyArea[ass]}),
                    ass, Tail(parents))

\* fire_many, the loop over prev_layer: the keys of the last layer that are
\* not stimuli, in the order of the dict.
RECURSIVE LayerAbove(_, _)
LayerAbove(current_layer, prev_layer) ==
    IF prev_layer = <<>> THEN current_layer
    ELSE LET ass == Head(prev_layer)[1]
         IN  LayerAbove(IF ass \in Stimuli THEN current_layer
                        ELSE AddParents(current_layer, ass, AssemblyParents[ass]),
                        Tail(prev_layer))

\* fire_many, the while loop: climb until the last layer holds no assembly.
RECURSIVE ClimbLayers(_)
ClimbLayers(layers) ==
    LET last == layers[Len(layers)]
    IN  IF \E i \in 1 .. Len(last) : last[i][1] \in AssemblyNames
        THEN ClimbLayers(Append(layers, LayerAbove(<<>>, last)))
        ELSE layers

\* {projectable: [area] for projectable in projectables}.
RECURSIVE BottomLayer(_, _)
BottomLayer(projectables, area) ==
    IF projectables = <<>> THEN <<>>
    ELSE LayerSet(BottomLayer(SubSeq(projectables, 1, Len(projectables) - 1), area),
                  projectables[Len(projectables)], {area})

\* fire_many, the mapping one layer is fired with: a stimulus maps to its
\* areas, the area of an assembly to the areas of all assemblies that live in
\* it.
LayerMapping(layer) ==
    LET keys == { layer[i][1] : i \in 1 .. Len(layer) }
        sources == (keys \cap Stimuli) \cup { AssemblyArea[q] : q \in keys \cap AssemblyNames }
    IN  [src \in sources |->
            IF src \in Stimuli THEN LayerGet(layer, src)
            ELSE UNION { LayerGet(layer, q) : q \in { r \in keys \cap AssemblyNames : AssemblyArea[r] = src } }]

\* fire_many, brain.next_round(mapping): one round with the mapping added to
\* the active connectome.
FireLayer(st, mapping) ==
    LET conn == ActiveConnectomeOf(st.active, Dict(mapping), FALSE)
    IN  { BrainState(o.W, o.winners, ActiveAfterNextRound(st.active, Dict(mapping), FALSE),
                     st.disabled, st.rounds + 1,
                     st.targeted \cup DOMAIN SourcesMapping(conn),
                     LastCallOf(Dict(mapping), FALSE, 1, conn)) :
            o \in Project(st.W, st.winners, st.disabled, conn) }

\* fire_many, the loop over the reversed layers, from layer number i down.
RECURSIVE FireLayers(_, _, _)
FireLayers(S, layers, i) ==
    IF i = 0 THEN S
    ELSE FireLayers(UNION { FireLayer(st, LayerMapping(layers[i])) : st \in S },
                    layers, i - 1)

\* connectome.plasticity_status, the accessor fire_many reads before and tests
\* after the walk: the state of the connectome's one plasticity switch, the
\* flag _plasticity_disabled. With it the last statement of fire_many puts
\* the switch back as it was, which is what the fire protocol asks for.
PlasticityStatus(disabled) == disabled

\* fire_many, its last statement: if not original_plasticity, the connectome
\* is told enable_plasticity(); otherwise the flag stays as the fire left it.
PlasticityAfterFire(original_plasticity, during) ==
    IF ~original_plasticity THEN FALSE ELSE during

\* fire_many(brain, projectables, area) with preserve_brain = False.
FireMany(st, projectables, area) ==
    LET layers == ClimbLayers(<<BottomLayer(projectables, area)>>)
    IN  { [o EXCEPT !.disabled =
              PlasticityAfterFire(PlasticityStatus(st.disabled), st.disabled)] :
            o \in FireLayers({st}, layers, Len(layers)) }

\* Assembly.identify(brain=brain) through the default reader, not preserving
\* the brain: fire the parents into the area of the assembly and report the
\* winners of that area. Each outcome is the brain afterwards and the value.
Identify(st, ass) ==
    { [brain |-> o, neurons |-> o.winners[AssemblyArea[ass]]] :
        o \in FireMany(st, AssemblyParents[ass], AssemblyArea[ass]) }

(* ------------------------- assembly operations ------------------------ *)

\* Sampled values of Brain.repeat.
Repeats == {1, 2}

\* brain.next_round(subconnectome, replace=True, iterations) as the assembly
\* operations call it, on a brain state.
NextRoundOn(st, sub, iterations) ==
    LET conn == ActiveConnectomeOf(st.active, sub, TRUE)
        r == ProjectCalls(iterations)
    IN  { BrainState(o.W, o.winners, ActiveAfterNextRound(st.active, sub, TRUE),
                     st.disabled, st.rounds + r,
                     st.targeted \cup DOMAIN SourcesMapping(conn),
                     LastCallOf(sub, TRUE, iterations, conn)) :
            o \in ProjectTimes({[W |-> st.W, winners |-> st.winners]}, st.disabled, conn, r) }

\* Assembly.project(area, brain=brain) of an assembly of the given parents
\* that lives in src: identify it (fire the parents into src and take the
\* winners of src), store these neurons as the winners of src, which holds
\* them already, and fire src into the target.
ProjectOf(st, parents, src, area, rep) ==
    UNION { NextRoundOn(o, Dict([p \in {src} |-> {area}]), rep) :
              o \in FireMany(st, parents, src) }

\* Assembly.project(area, brain=brain) of a sampled assembly.
ProjectIn(st, ass, area, rep) ==
    UNION { LET src == AssemblyArea[ass]
                start == [id.brain EXCEPT !.winners[src] = id.neurons]
            IN  NextRoundOn(start, Dict([p \in {src} |-> {area}]), rep) :
              id \in Identify(st, ass) }

\* Assembly._merge, the loop that fills area_neuron_mapping: every assembly is
\* identified in turn, and the entry of its area is overwritten.
RECURSIVE IdentifyAll(_, _)
IdentifyAll(S, assemblies) ==
    IF assemblies = <<>> THEN S
    ELSE IdentifyAll(
            UNION { { [brain |-> id.brain,
                       area_neuron_mapping |->
                           [src \in DOMAIN o.area_neuron_mapping |->
                               IF src = AssemblyArea[Head(assemblies)] THEN id.neurons
                               ELSE o.area_neuron_mapping[src]],
                       identified |-> Append(o.identified, id.neurons)] :
                        id \in Identify(o.brain, Head(assemblies)) } : o \in S },
            Tail(assemblies))

\* Assembly._merge with a brain, up to the call of next_round: the brain with
\* the winners of the source areas stored, and what each parent identified as.
MergeStart(st, assemblies) ==
    LET srcs == { AssemblyArea[assemblies[i]] : i \in 1 .. Len(assemblies) }
    IN  { [brain |-> [o.brain EXCEPT !.winners =
                          [a \in DOMAIN o.brain.winners |->
                              IF a \in srcs THEN o.area_neuron_mapping[a]
                              ELSE o.brain.winners[a]]],
           identified |-> o.identified] :
            o \in IdentifyAll({[brain |-> st,
                                area_neuron_mapping |-> [src \in srcs |-> {}],
                                identified |-> <<>>]}, assemblies) }

\* Assembly._merge, the subconnectome: {source: [area] for source in
\* area_neuron_mapping}.
MergeSubconnectome(assemblies, area) ==
    Dict([src \in { AssemblyArea[assemblies[i]] : i \in 1 .. Len(assemblies) } |-> {area}])

\* Assembly._merge(assemblies, area, brain=brain): the brains it can end in.
MergeIn(st, assemblies, area, rep) ==
    UNION { NextRoundOn(m.brain, MergeSubconnectome(assemblies, area), rep) :
              m \in MergeStart(st, assemblies) }

\* Assembly._associate, the loop over product(a, b): x.project(y.area) and
\* then y.project(x.area) for every pair.
RECURSIVE AssociateIn(_, _, _)
AssociateIn(S, pairs, rep) ==
    IF pairs = <<>> THEN S
    ELSE LET x == Head(pairs)[1]
             y == Head(pairs)[2]
             afterX == UNION { ProjectIn(st, x, AssemblyArea[y], rep) : st \in S }
             afterY == UNION { ProjectIn(st, y, AssemblyArea[x], rep) : st \in afterX }
         IN  AssociateIn(afterY, Tail(pairs), rep)

\* itertools.product(a, b) as a sequence.
RECURSIVE Product(_, _)
Product(a, b) ==
    IF a = <<>> THEN <<>>
    ELSE [i \in 1 .. Len(b) |-> <<Head(a), b[i]>>] \o Product(Tail(a), b)

\* The brain fire_many is handed, and the other brain of the scopes.
FiredBrain == "B1"

\* What area.winners evaluates to on an area that is bound to no brain: the
\* property hands back a functools.partial object, kept here as a value that
\* is no set of neurons.
Partial == {-1}

\* The winners of every area of a brain that has not performed a round.
NoWinners == {}

\* Area.winners, the bound property: brain.winners[area] of the brain the area
\* is bound to. The brain that is fired holds win; the other brain performs no
\* round.
AreaWinners(bnd, win, area) ==
    IF bnd[area] = FiredBrain THEN win[area]
    ELSE IF bnd[area] = Unbound THEN Partial
    ELSE NoWinners

\* fire_many with preserve_brain = True, the loop over the reversed layers:
\* before a layer is fired area.winners of every area its mapping names as a
\* destination is put into changed_areas, a later layer overwriting the entry
\* of an earlier one.
RECURSIVE FireLayersPreserving(_, _, _, _)
FireLayersPreserving(S, layers, i, bnd) ==
    IF i = 0 THEN S
    ELSE LET mapping == LayerMapping(layers[i])
             dests == UNION { mapping[src] : src \in DOMAIN mapping }
         IN  FireLayersPreserving(
                UNION { { [brain |-> o,
                           changed_areas |->
                               [a \in DOMAIN e.changed_areas \cup dests |->
                                   IF a \in dests THEN AreaWinners(bnd, e.brain.winners, a)
                                   ELSE e.changed_areas[a]]] :
                            o \in FireLayer(e.brain, mapping) } : e \in S },
                layers, i - 1, bnd)

\* fire_many(brain, projectables, area, preserve_brain=True): plasticity is
\* switched off before the layers are fired.
FireManyPreserving(st, projectables, area, bnd) ==
    LET layers == ClimbLayers(<<BottomLayer(projectables, area)>>)
    IN  { [brain |-> [e.brain EXCEPT !.disabled =
                         PlasticityAfterFire(PlasticityStatus(st.disabled), TRUE)],
           changed_areas |-> e.changed_areas] :
            e \in FireLayersPreserving({[brain |-> [st EXCEPT !.disabled = TRUE],
                                         changed_areas |-> EmptyDict]},
                                       layers, Len(layers), bnd) }

\* revert_changes(brain, changed_areas): the winners kept are stored again.
RevertChanges(st, changed_areas) ==
    [st EXCEPT !.winners = [a \in DOMAIN st.winners |->
                               IF a \in DOMAIN changed_areas THEN changed_areas[a]
                               ELSE st.winners[a]]]

\* Assembly.identify(preserve_brain=True, brain=brain) through the default
\* reader: fire preserving, report the winners of the area, revert.
IdentifyPreserving(st, ass, bnd) ==
    { [brain |-> RevertChanges(e.brain, e.changed_areas),
       neurons |-> e.brain.winners[AssemblyArea[ass]]] :
        e \in FireManyPreserving(st, AssemblyParents[ass], AssemblyArea[ass], bnd) }

\* The attributes BrainRecipe.__init__ gives a recipe.
RecipeAttributes == {"areas", "stimuli", "assemblies", "mapping", "initialization", "ctx_stack"}

\* BrainRecipe.mapping of the recipe of each brain: _add_assembly files every
\* assembly of the recipe under its area.
AreaAssemblyMapping ==
    [b \in Brains |->
        [area \in RecipeAreas[b] |-> { q \in RecipeAssemblies[b] : AssemblyArea[q] = area }]]

\* The greatest common divisor of two naturals, not both zero.
RECURSIVE GCD(_, _)
GCD(x, y) == IF y = 0 THEN x ELSE GCD(y, x % y)

\* The quotient num / den of true division, kept as the fraction in lowest
\* terms <<numerator, denominator>>.
Quotient(num, den) == <<num \div GCD(num, den), den \div GCD(num, den)>>

\* p >= q on two such quotients.
AtLeast(p, q) == p[1] * q[2] >= q[1] * p[2]

\* Assembly.read, the loop over the assemblies of the area, in any order of
\* the set: the overlap of each is the number of neurons of area.winners (the
\* winners in the brain the area is bound to) among the neurons the assembly
\* identifies as, divided by area.k.
RECURSIVE ReadOverlaps(_, _, _, _)
ReadOverlaps(S, area, todo, bnd) ==
    IF todo = {} THEN S
    ELSE UNION { ReadOverlaps(
                    UNION { { [brain |-> id.brain,
                               overlap |-> [q \in DOMAIN e.overlap \cup {ass} |->
                                               IF q = ass
                                               THEN Quotient(Cardinality(
                                                                    AreaWinners(bnd, e.brain.winners, area)
                                                                        \cap id.neurons),
                                                                 k[area])
                                               ELSE e.overlap[q]]] :
                                id \in IdentifyPreserving(e.brain, ass, bnd) } : e \in S },
                    area, todo \ {ass}, bnd) : ass \in todo }

\* The call raised: the recipe has no attribute of the name read, or
\* max(overlap.keys(), key=...) was given an empty dict.
ReadError == [kind |-> "error", assembly |-> "none", score |-> <<0, 1>>, best |-> <<0, 1>>]

\* Assembly.read, the return statement: an assembly of largest overlap,
\* whatever that overlap is.
ReadResults(overlap) ==
    IF DOMAIN overlap = {} THEN {ReadError}
    ELSE { [kind |-> "assembly", assembly |-> q, score |-> overlap[q], best |-> overlap[q]] :
            q \in { r \in DOMAIN overlap : \A t \in DOMAIN overlap : AtLeast(overlap[r], overlap[t]) } }

\* Assembly.read(area, brain=brain): the brain afterwards and the result.
\* The first statement reads brain.recipe.area_assembly_mapping; in the loop
\* set(area.winners) is evaluated first and raises on an unbound area, whose
\* winners are no list.
ReadIn(st, area, bnd) ==
    IF "area_assembly_mapping" \notin RecipeAttributes
    THEN {[brain |-> st, result |-> ReadError]}
    ELSE IF AreaAssemblyMapping[FiredBrain][area] # {} /\ bnd[area] = Unbound
    THEN {[brain |-> st, result |-> ReadError]}
    ELSE
    UNION { { [brain |-> e.brain, result |-> res] : res \in ReadResults(e.overlap) } :
              e \in ReadOverlaps({[brain |-> st, overlap |-> EmptyDict]}, area,
                                 AreaAssemblyMapping[FiredBrain][area], bnd) }

(* -------------------------- assembly identity ------------------------- *)

\* The _uid of the one stimulus; assemblies draw theirs from 1 on.
StimulusUid == 0

\* hash(x) of a stimulus or an assembly, which is hash(x._uid), the hash of a
\* 128-bit number. The order of the hashes is unrelated to the order in which
\* the objects were made; on the sampled uids the hash is injective.
HashOf(uid) == (uid * 11) % 31

\* Insertion of one element into a list sorted by hash, behind the elements
\* of equal hash (sorted is stable).
RECURSIVE InsertByHash(_, _)
InsertByHash(sorted, x) ==
    IF sorted = <<>> THEN <<x>>
    ELSE IF HashOf(x) < HashOf(Head(sorted))
         THEN <<x>> \o sorted
         ELSE <<Head(sorted)>> \o InsertByHash(Tail(sorted), x)

\* A slip: the parents are hashed in the order given.
SortedByHashAsGiven(parents) == parents

\* sorted(parents, key=hash).
RECURSIVE SortedByHash(_)
SortedByHash(parents) ==
    IF parents = <<>> THEN <<>>
    ELSE InsertByHash(SortedByHash(SubSeq(parents, 1, Len(parents) - 1)),
                      parents[Len(parents)])

\* The uid argument Assembly.__init__ passes on: hash((area, *sorted(parents,
\* key=hash))). The hash of a tuple is a function of the hashes of its elements
\* in order; the model keeps the tuple of hashes itself, that is, a tuple hash
\* without collisions.
UidArgument(parents, area) ==
    <<area>> \o [i \in 1 .. Len(parents) |-> HashOf(SortedByHash(parents)[i])]

\* UniquelyIdentifiable.__init__: the _uid the new object ends with.
UidOf(registry, uid, fresh) ==
    IF uid \in DOMAIN registry THEN registry[uid] ELSE fresh

\* UniquelyIdentifiable.__init__: the registry afterwards.
HistAfter(registry, uid, fresh) ==
    IF uid \in DOMAIN registry THEN registry
    ELSE [u \in DOMAIN registry \cup {uid} |-> IF u = uid THEN fresh ELSE registry[u]]

\* The registry, the assemblies constructed and the next draw, as one value.
CurrentIdentity == [hist |-> hist, created |-> created, next_uuid |-> next_uuid]

\* Assembly.__init__: one draw of uuid4, the registry entry unless an equal
\* structure has one, and the new object with the binding and the recipes it
\* is given by the operation that constructs it.
Construct(id, parents, area, bnd, appears_in) ==
    LET uid == UidArgument(parents, area)
    IN  [hist |-> HistAfter(id.hist, uid, id.next_uuid),
         created |-> Append(id.created,
                            [area |-> area, parents |-> parents,
                             uid |-> UidOf(id.hist, uid, id.next_uuid),
                             bound |-> bnd, appears_in |-> appears_in]),
         next_uuid |-> id.next_uuid + 1]

\* The variables take the identities an operation ended with.
InstallIdentity(id) ==
    /\ hist' = id.hist
    /\ created' = id.created
    /\ next_uuid' = id.next_uuid

\* The projectables that exist: the stimulus and the assemblies made so far.
Projectables == {StimulusUid} \cup { created[i].uid : i \in 1 .. Len(created) }

\* The parent tuples sampled: one or two projectables, in either order.
ParentTuples ==
    { <<x>> : x \in Projectables } \cup { <<x, y>> : x, y \in Projectables }

\* Assembly.__init__ outside any scope (project and merge with brain = None
\* construct the new assembly and do nothing else).
NewAssembly(parents, area) ==
    /\ Len(created) < MaxAssemblies
    /\ InstallIdentity(Construct(CurrentIdentity, parents, area, Unbound, {}))
    /\ UNCHANGED <<engine_vars, scope_vars, operation_vars, recording_vars, twin_vars, fire_vars, kernel_vars>>

IdentityNext ==
    \E parents \in ParentTuples, area \in Areas : NewAssembly(parents, area)

\* One population of parts with Connectome(p = 0); only assemblies are made.
InitIdentity ==
    /\ \E c \in Configs : EngineInit(c, 0)
    /\ ScopeInit
    /\ LayerInit

\* The construction of assemblies outside any scope.
SpecIdentity == InitIdentity /\ [][IdentityNext]_vars

(* ----------------------- operations in a brain ------------------------ *)

\* The brain as the variables hold it.
Current ==
    BrainState(W, winners, active, plasticity_disabled, nrounds, targeted,
               [call |-> lastCall, conn |-> lastConn, rounds |-> lastRounds])

\* The variables take the brain an operation ended in.
Install(st) ==
    /\ W' = st.W
    /\ winners' = st.winners
    /\ active' = st.active
    /\ plasticity_disabled' = st.disabled
    /\ nrounds' = st.rounds
    /\ targeted' = st.targeted
    /\ lastCall' = st.last.call
    /\ lastConn' = st.last.conn
    /\ lastRounds' = st.last.rounds
    /\ UNCHANGED <<n, k, beta, areas, stimuli>>

\* The _uid of the sampled assemblies, constructed in the order x, y, z.
AssemblyUid == [x |-> 1, y |-> 2, z |-> 3]

\* The _uid of each projectable of a tuple of stimuli and sampled assemblies.
UidsOf(projectables) ==
    [i \in 1 .. Len(projectables) |->
        IF projectables[i] \in Stimuli THEN StimulusUid ELSE AssemblyUid[projectables[i]]]

\* Assembly.appears_in of the sampled assemblies: the recipes (named as their
\* brains) that hold the assembly.
AppearsIn == [q \in AssemblyNames |-> { b \in Brains : q \in RecipeAssemblies[b] }]

\* Assembly([s], a), Assembly([s], b), Assembly([y], a), ... constructed one
\* after the other from an empty registry, outside any scope and recipe.
RECURSIVE ConstructedFrom(_, _)
ConstructedFrom(id, names) ==
    IF names = <<>> THEN id
    ELSE ConstructedFrom(Construct(id, UidsOf(AssemblyParents[Head(names)]),
                                   AssemblyArea[Head(names)], Unbound, {}),
                         Tail(names))

\* The registry once the sampled assemblies of the sequence exist.
IdentityOf(names) ==
    LET id == ConstructedFrom([hist |-> <<>>, created |-> <<>>, next_uuid |-> 1], names)
    IN  /\ hist = id.hist
        /\ created = id.created
        /\ next_uuid = id.next_uuid

\* bind_like(first, *others) for the parameter brain: the binding of the
\* first, dropped when another one is bound to a different brain.
BindLike(bnds) ==
    IF \E i \in 2 .. Len(bnds) : bnds[i] # Unbound /\ bnds[i] # bnds[1]
    THEN Unbound
    ELSE bnds[1]

\* Assembly.project, line 153 and line 168: the projected assembly is
\* constructed with the recipes of self and bound like self.
ConstructProjected(id, ass, area, bnd) ==
    Construct(id, UidsOf(<<ass>>), area, bnd[ass], AppearsIn[ass])

\* Assembly._merge, lines 215-216 and line 235: the merged assembly is
\* constructed with the recipes all parents share and bound like them.
ConstructMerged(id, assemblies, area, bnd) ==
    Construct(id, UidsOf(assemblies), area,
              BindLike([i \in 1 .. Len(assemblies) |-> bnd[assemblies[i]]]),
              { b \in Brains : \A i \in 1 .. Len(assemblies) : b \in AppearsIn[assemblies[i]] })

\* Assembly._associate, the assemblies its projects construct: for every pair
\* one in the area of y and one in the area of x.
RECURSIVE ConstructAssociated(_, _, _)
ConstructAssociated(id, pairs, bnd) ==
    IF pairs = <<>> THEN id
    ELSE LET x == Head(pairs)[1]
             y == Head(pairs)[2]
         IN  ConstructAssociated(
                ConstructProjected(ConstructProjected(id, x, AssemblyArea[y], bnd),
                                   y, AssemblyArea[x], bnd),
                Tail(pairs), bnd)

\* BrainRecipe.assemblies of the recipe of a brain: the sampled assemblies
\* and, through Assembly.__init__ and BrainRecipe.append, every assembly
\* constructed with the recipe in appears_in.
RecipeAssembliesNow(b) ==
    { AssemblyUid[q] : q \in RecipeAssemblies[b] }
        \cup { created[i].uid : i \in { j \in 1 .. Len(created) : b \in created[j].appears_in } }

\* assembly.project(area) in the scope of the brain.
ProjectOp(ass, area) ==
    /\ nops < MaxOps
    /\ \E o \in ProjectIn(Current, ass, area, repeat) : Install(o)
    /\ InstallIdentity(ConstructProjected(CurrentIdentity, ass, area, bound))
    /\ nops' = nops + 1
    /\ lastOp' = [op |-> "project", a |-> <<ass>>, b |-> <<>>, area |-> area,
                  identified |-> <<>>, start |-> winners]
    /\ UNCHANGED <<repeat, lastRead, scope_vars, recording_vars, twin_vars, fire_vars, kernel_vars>>

\* assembly.reciprocal_project(area) in the scope of the brain: project, then
\* the projected assembly (whose parent is the assembly) is projected back
\* into the area of the assembly.
ReciprocalProjectOp(ass, area) ==
    /\ nops < MaxOps
    /\ \E o \in UNION { ProjectOf(st, <<ass>>, area, AssemblyArea[ass], repeat) :
                          st \in ProjectIn(Current, ass, area, repeat) } : Install(o)
    /\ LET projected == ConstructProjected(CurrentIdentity, ass, area, bound)
       IN  InstallIdentity(
              Construct(projected,
                        <<projected.created[Len(projected.created)].uid>>,
                        AssemblyArea[ass], bound[ass], AppearsIn[ass]))
    /\ nops' = nops + 1
    /\ lastOp' = [op |-> "reciprocal_project", a |-> <<ass>>, b |-> <<>>, area |-> area,
                  identified |-> <<>>, start |-> winners]
    /\ UNCHANGED <<repeat, lastRead, scope_vars, recording_vars, twin_vars, fire_vars, kernel_vars>>

\* (x + y).merge(area) in the scope of the brain.
MergeOp(assemblies, area) ==
    /\ nops < MaxOps
    /\ \E m \in MergeStart(Current, assemblies) :
          /\ \E o \in NextRoundOn(m.brain, MergeSubconnectome(assemblies, area), repeat) :
                Install(o)
          /\ lastOp' = [op |-> "merge", a |-> assemblies, b |-> <<>>, area |-> area,
                        identified |-> m.identified, start |-> m.brain.winners]
    /\ InstallIdentity(ConstructMerged(CurrentIdentity, assemblies, area, bound))
    /\ nops' = nops + 1
    /\ UNCHANGED <<repeat, lastRead, scope_vars, recording_vars, twin_vars, fire_vars, kernel_vars>>

\* a.associate(b) in the scope of the brain.
AssociateOp(a, b) ==
    /\ nops < MaxOps
    /\ \E o \in AssociateIn({Current}, Product(a, b), repeat) : Install(o)
    /\ InstallIdentity(ConstructAssociated(CurrentIdentity, Product(a, b), bound))
    /\ nops' = nops + 1
    /\ lastOp' = [op |-> "associate", a |-> a, b |-> b, area |-> "a",
                  identified |-> <<>>, start |-> winners]
    /\ UNCHANGED <<repeat, lastRead, scope_vars, recording_vars, twin_vars, fire_vars, kernel_vars>>

\* Assembly.read(area) in the scope of the brain.
ReadOp(area) ==
    /\ nops < MaxOps
    /\ \E o \in ReadIn(Current, area, bound) :
          /\ Install(o.brain)
          /\ lastRead' = o.result
    /\ nops' = nops + 1
    /\ lastOp' = [op |-> "read", a |-> <<>>, b |-> <<>>, area |-> area,
                  identified |-> <<>>, start |-> winners]
    /\ UNCHANGED <<repeat, scope_vars, identity_vars, recording_vars, twin_vars, fire_vars, kernel_vars>>

\* Sampled arguments of merge: parents in different areas, in the same area.
MergeArguments == { <<"x", "y">>, <<"x", "z">>, <<"z", "x">>, <<"y">> }

\* Sampled arguments of reciprocal_project: into the other area, and of an
\* assembly whose parent is an assembly.
ReciprocalArguments == { <<"x", "b">>, <<"z", "b">> }

\* Sampled arguments of associate.
AssociateArguments == { << <<"x">>, <<"y">> >>, << <<"y">>, <<"z">> >> }

OperationNext ==
    \/ \E ass \in AssemblyNames, area \in Areas : ProjectOp(ass, area)
    \/ \E r \in ReciprocalArguments : ReciprocalProjectOp(r[1], r[2])
    \/ \E assemblies \in MergeArguments, area \in Areas : MergeOp(assemblies, area)
    \/ \E ab \in AssociateArguments : AssociateOp(ab[1], ab[2])
    \/ \E area \in Areas : ReadOp(area)

\* Sampled streams for the brains the operations run in: p = 1 and a draw
\* with 0 < p < 1.
OperationSeeds == {1, 2}

\* A brain with repeat set, inside its scope, before any operation.
InitOperation ==
    /\ \E c \in Configs : \E seed \in OperationSeeds : EngineInit(c, seed)
    /\ ScopeEntered(FiredBrain)
    /\ IdentityOf(<<"x", "y", "z">>)
    /\ repeat \in Repeats
    /\ nops = 0
    /\ lastOp = [op |-> "none", a |-> <<>>, b |-> <<>>, area |-> "a",
                 identified |-> <<>>, start |-> [x \in Areas |-> {}]]
    /\ lastRead = [kind |-> "none", assembly |-> "none", score |-> <<0, 1>>, best |-> <<0, 1>>]
    /\ RecordingInit
    /\ NoTwin
    /\ FireInit
    /\ NoKernel

\* The assembly operations performed in one brain.
SpecOperation == InitOperation /\ [][OperationNext]_vars

(* ------------------------- recording and bake ------------------------- *)

\* brain=None.
NoBrain == 0

\* An assembly of the recording sample: a root assembly followed by the
\* areas it was projected into, one after the other.
AreaOf(ass) == IF Len(ass) = 1 THEN AssemblyArea[ass[1]] ELSE ass[Len(ass)]

\* Recordable(...): the functions recorded and whether each is executed too.
ExecuteAnyway == [project |-> TRUE, reciprocal_project |-> TRUE,
                  merge |-> TRUE, associate |-> FALSE]

\* Recording.Entry; the function is a method bound to an assembly.
Entry(function, self, positional_arguments, keyword_arguments) ==
    [function |-> function, self |-> self,
     positional_arguments |-> positional_arguments,
     keyword_arguments |-> keyword_arguments]

\* The keyword arguments {brain: b}.
BrainKeyword(b) == [key \in {"brain"} |-> b]

\* Recording.play, the dict of line 23: the stored keywords, then those of
\* the replay whose name is not stored.
EffectiveKwargs(keyword_arguments, kwargs) ==
    [key \in DOMAIN keyword_arguments \cup DOMAIN kwargs |->
        IF key \in DOMAIN keyword_arguments THEN keyword_arguments[key] ELSE kwargs[key]]

\* The body of an operation starts in the brain given (which may be None):
\* the call is noted with the repeat and the parts that brain has then.
Logged(st, brs, by, function, self, positional_arguments, brain) ==
    [st EXCEPT !.log = Append(@,
        [function |-> function, self |-> self,
         positional_arguments |-> positional_arguments, brain |-> brain, by |-> by,
         repeat |-> IF brain = NoBrain THEN 0 ELSE brs[brain].repeat,
         parts |-> IF brain = NoBrain THEN {} ELSE brs[brain].parts])]

\* The _uid of an assembly of the recording sample: of a root assembly, or of
\* the projection of the assembly before it into its last area.
RECURSIVE UidOfAssembly(_, _)
UidOfAssembly(registry, ass) ==
    IF Len(ass) = 1 THEN AssemblyUid[ass[1]]
    ELSE registry[UidArgument(<<UidOfAssembly(registry, SubSeq(ass, 1, Len(ass) - 1))>>,
                              ass[Len(ass)])]

\* Assembly.project and Assembly._merge of one assembly, their first
\* statement: Assembly([self], area, appears_in=self.appears_in), later bound
\* like self.
Constructing(st, self, area) ==
    [st EXCEPT !.id = Construct(@, <<UidOfAssembly(@.hist, self)>>, area,
                                bound[self[1]], AppearsIn[self[1]])]

\* assembly.project(area, brain=brain) called from the body of another
\* operation: the wrapper records the call when the assembly is bound to a
\* recording, and project is executed in either case.
WrappedProject(st, brs, is_bound, self, area, brain) ==
    Constructing(
        Logged(IF is_bound
               THEN [st EXCEPT !.actions =
                        Append(@, Entry("project", self, <<area>>, BrainKeyword(brain)))]
               ELSE st,
               brs, "call", "project", self, <<area>>, brain),
        self, area)

\* The function of an entry, i.e. the operation below its recording wrapper.
\* reciprocal_project and _associate call project through the wrapper, on
\* the projected assembly (bound like self) and on the other assembly.
Inner(st, brs, is_bound, by, function, self, positional_arguments, brain) ==
    LET t == Logged(st, brs, by, function, self, positional_arguments, brain)
    IN  CASE function = "reciprocal_project" ->
               WrappedProject(
                   WrappedProject(t, brs, is_bound, self, positional_arguments[1], brain),
                   brs, is_bound, Append(self, positional_arguments[1]), AreaOf(self), brain)
          [] function = "associate" ->
               WrappedProject(
                   WrappedProject(t, brs, is_bound, self, AreaOf(positional_arguments[1]), brain),
                   brs, is_bound, positional_arguments[1], AreaOf(self), brain)
          [] OTHER -> Constructing(t, self, positional_arguments[1])

\* Recordable.wrap_method, wrapper: a call by the user.
Wrapped(st, brs, is_bound, function, self, positional_arguments, kwargs) ==
    LET rec == IF is_bound
               THEN [st EXCEPT !.actions =
                        Append(@, Entry(function, self, positional_arguments, kwargs))]
               ELSE st
    IN  IF is_bound /\ ~ExecuteAnyway[function] THEN rec
        ELSE Inner(rec, brs, is_bound, "call", function, self, positional_arguments,
                   IF "brain" \in DOMAIN kwargs THEN kwargs["brain"] ELSE NoBrain)

\* Recording.play(brain=brain): the for loop over self.actions, which also
\* reaches the entries appended to the list while it runs.
RECURSIVE PlayFrom(_, _, _, _, _)
PlayFrom(st, brs, is_bound, i, brain) ==
    IF i > Len(st.actions) THEN st
    ELSE LET e == st.actions[i]
             effective_kwargs == EffectiveKwargs(e.keyword_arguments, BrainKeyword(brain))
         IN  PlayFrom(Inner(st, brs, is_bound, "play", e.function, e.self,
                            e.positional_arguments, effective_kwargs["brain"]),
                      brs, is_bound, i + 1, brain)

\* Every area and stimulus of the recipe.
RecipeParts == Areas \cup Stimuli

\* Brain(connectome_cls(p), recipe=recipe, repeat=train_repeat).
NewBrain(train_repeat) == [repeat |-> train_repeat, parts |-> RecipeParts]

\* BrainRecipe.__enter__.
RecipeEnter ==
    /\ Len(recipe_ctx_stack) < MaxDepth
    /\ recipe_ctx_stack' = Append(recipe_ctx_stack, recording_bound)
    /\ recording_bound' = TRUE
    /\ UNCHANGED <<actions, baked, played, lastBake, lastInitialize>>
    /\ UNCHANGED <<engine_vars, scope_vars, identity_vars, operation_vars, twin_vars, fire_vars, kernel_vars>>

\* BrainRecipe.__exit__.
RecipeExit ==
    /\ Len(recipe_ctx_stack) > 0
    /\ recording_bound' = recipe_ctx_stack[Len(recipe_ctx_stack)]
    /\ recipe_ctx_stack' = SubSeq(recipe_ctx_stack, 1, Len(recipe_ctx_stack) - 1)
    /\ UNCHANGED <<actions, baked, played, lastBake, lastInitialize>>
    /\ UNCHANGED <<engine_vars, scope_vars, identity_vars, operation_vars, twin_vars, fire_vars, kernel_vars>>

\* An operation called on an assembly inside the recipe's scope, with or
\* without an explicit brain.
Record(function, self, positional_arguments, kwargs) ==
    /\ recording_bound
    /\ Len(actions) < MaxEntries
    /\ LET st == Wrapped([actions |-> actions, log |-> <<>>, id |-> CurrentIdentity],
                         baked, TRUE, function, self, positional_arguments, kwargs)
       IN  /\ actions' = st.actions
           /\ InstallIdentity(st.id)
    /\ UNCHANGED <<recording_bound, recipe_ctx_stack, baked, played, lastBake, lastInitialize>>
    /\ UNCHANGED <<engine_vars, scope_vars, operation_vars, twin_vars, fire_vars, kernel_vars>>

\* bake(recipe, p, connectome_cls, train_repeat, effective_repeat): the brain
\* is constructed, which draws its _uid, and the recording is replayed in it.
Bake(train_repeat, effective_repeat) ==
    /\ Len(baked) < MaxBakes
    /\ LET brs == Append(baked, NewBrain(train_repeat))
           brain == Len(brs)
           st == PlayFrom([actions |-> actions, log |-> <<>>,
                           id |-> [CurrentIdentity EXCEPT !.next_uuid = @ + 1]], brs,
                          recording_bound, 1, brain)
       IN  /\ actions' = st.actions
           /\ played' = st.log
           /\ InstallIdentity(st.id)
           /\ baked' = [brs EXCEPT ![brain].repeat = effective_repeat]
           /\ lastBake' = [brain |-> brain, train_repeat |-> train_repeat,
                           effective_repeat |-> effective_repeat, before |-> actions]
    /\ UNCHANGED <<recording_bound, recipe_ctx_stack, lastInitialize>>
    /\ UNCHANGED <<engine_vars, scope_vars, operation_vars, twin_vars, fire_vars, kernel_vars>>

\* recipe.initialize(brain) on a brain that bake has returned:
\* Recording.play(brain=brain) replays the recording in that brain, with the
\* repeat the brain has by then; no brain is constructed.
Initialize(brain) ==
    /\ lastInitialize.calls < MaxInitializations
    /\ brain \in 1 .. Len(baked)
    /\ LET st == PlayFrom([actions |-> actions, log |-> <<>>, id |-> CurrentIdentity],
                          baked, recording_bound, 1, brain)
       IN  /\ actions' = st.actions
           /\ InstallIdentity(st.id)
           /\ lastInitialize' = [brain |-> brain, calls |-> lastInitialize.calls + 1,
                                 played |-> st.log]
    /\ UNCHANGED <<recording_bound, recipe_ctx_stack, baked, played, lastBake>>
    /\ UNCHANGED <<engine_vars, scope_vars, operation_vars, twin_vars, fire_vars, kernel_vars>>

\* Sampled operations of the recipe: on x (area a), towards area b and
\* assembly y (area b).
RecordArguments ==
    { <<"project", <<"x">>, <<"b">> >>,
      <<"reciprocal_project", <<"x">>, <<"b">> >>,
      <<"merge", <<"x">>, <<"b">> >>,
      <<"associate", <<"x">>, << <<"y">> >> >> }

\* The default of bake's effective_repeat.
DefaultEffectiveRepeat == 1

RecordingNext ==
    \/ RecipeEnter
    \/ RecipeExit
    \/ \E r \in RecordArguments :
         \E kwargs \in {EmptyDict} \cup { BrainKeyword(b) : b \in 1 .. Len(baked) } :
            Record(r[1], r[2], r[3], kwargs)
    \/ \E train_repeat \in Repeats, effective_repeat \in Repeats, given \in BOOLEAN :
         Bake(train_repeat, IF given THEN effective_repeat ELSE DefaultEffectiveRepeat)
    \/ \E brain \in 1 .. MaxBakes : Initialize(brain)

\* A recipe that holds the assemblies x and y, outside any scope.
InitRecording ==
    /\ \E c \in Configs : EngineInit(c, 0)
    /\ ScopeInit
    /\ IdentityOf(<<"x", "y">>)
    /\ OperationInit
    /\ RecordingInit
    /\ NoTwin
    /\ FireInit
    /\ NoKernel

\* A recipe, its scope, the operations recorded in it and the brains baked.
SpecRecording == InitRecording /\ [][RecordingNext]_vars

(* ----------------------------- two bakes ------------------------------ *)

\* Sampled values of p: 0, 1 and a value strictly between.
Probabilities == {"0", "1", "between"}

\* RandomMatrix() as Connectome.__init__ creates it: no seed is passed, so
\* PCG64(None) starts from the entropy of the system and the draws of a brain
\* are any stream of its p. bake has no seed parameter to pass on.
EntropyStreams(p) ==
    CASE p = "0" -> {0}
      [] p = "1" -> {1}
      [] OTHER -> {2, 3}

\* brain.next_round(subconnectome, replace, iterations) called on both
\* brains. The partial sort is a function of its input: from equal states
\* the two brains reach equal states.
TwinNextRound(sub, replace, iterations) ==
    LET conn == ActiveConnectomeOf(active, sub, replace)
        r == ProjectCalls(iterations)
    IN  /\ nrounds + r <= MaxRounds
        /\ \E st \in ProjectTimes({[W |-> W, winners |-> winners]},
                                  plasticity_disabled, conn, r) :
           \E tw \in ProjectTimes({[W |-> twinW, winners |-> twinWinners]},
                                  plasticity_disabled, conn, r) :
              /\ (W = twinW /\ winners = twinWinners) => tw = st
              /\ W' = st.W
              /\ winners' = st.winners
              /\ twinW' = tw.W
              /\ twinWinners' = tw.winners
        /\ active' = ActiveAfterNextRound(active, sub, replace)
        /\ lastCall' = [op |-> "next_round", given |-> sub.given,
                        subEdges |-> Edges(sub.map), replace |-> replace,
                        iterations |-> iterations]
        /\ lastConn' = conn
        /\ lastRounds' = r
        /\ nrounds' = nrounds + r
        /\ targeted' = targeted \cup DOMAIN SourcesMapping(conn)
        /\ UNCHANGED <<n, k, beta, areas, stimuli, plasticity_disabled>>
        /\ UNCHANGED <<scope_vars, identity_vars, operation_vars, recording_vars,
                       fire_vars, kernel_vars>>

TwinNext ==
    \E sub \in Subconnectomes, replace \in BOOLEAN, iterations \in Iterations :
        TwinNextRound(sub, replace, iterations)

\* Two calls of bake with the same recipe (areas a, b, stimulus s, nothing
\* recorded), the same p and the same train_repeat.
InitTwin ==
    /\ \E c \in Configs : \E p \in Probabilities :
         \E first \in EntropyStreams(p), second \in EntropyStreams(p) :
            /\ EngineInit(c, first)
            /\ twinW = InitializeParts(second, c.n)
    /\ twinWinners = [a \in Areas |-> {}]
    /\ ScopeInit
    /\ IdentityInit
    /\ OperationInit
    /\ RecordingInit
    /\ FireInit
    /\ NoKernel

\* Two brains of the same bake arguments under the same operations.
SpecTwin == InitTwin /\ [][TwinNext]_vars

(* ------------------------------ firing -------------------------------- *)

\* fire_many, the layers it builds, the bottom layer first.
BuildLayers(projectables, area) == ClimbLayers(<<BottomLayer(projectables, area)>>)

\* fire_many, the mappings of the layers in the order they are fired.
RECURSIVE FiredMappings(_, _)
FiredMappings(layers, i) ==
    IF i = 0 THEN <<>>
    ELSE <<LayerMapping(layers[i])>> \o FiredMappings(layers, i - 1)

\* The dict each call of next_round hands to project, and the dict the brain
\* keeps when the last call has returned.
RECURSIVE FiredConnectomes(_, _, _)
FiredConnectomes(act, mappings, i) ==
    IF i > Len(mappings) THEN [conns |-> <<>>, active |-> act]
    ELSE LET rest == FiredConnectomes(ActiveAfterNextRound(act, Dict(mappings[i]), FALSE),
                                      mappings, i + 1)
         IN  [conns |-> <<ActiveConnectomeOf(act, Dict(mappings[i]), FALSE)>> \o rest.conns,
              active |-> rest.active]

\* What a call of fire_many leaves in the history of the last fire: the
\* arguments, the layers, the brain before the call and the dict returned.
LastFireOf(projectables, area, preserve_brain, changed_areas) ==
    LET layers == BuildLayers(projectables, area)
        mappings == FiredMappings(layers, Len(layers))
    IN  [op |-> "fire", projectables |-> projectables, area |-> area,
         preserve_brain |-> preserve_brain, layers |-> layers,
         mappings |-> mappings,
         conns |-> FiredConnectomes(active, mappings, 1).conns,
         W |-> W, winners |-> winners, active |-> active,
         disabled |-> plasticity_disabled, rounds |-> nrounds,
         changed_areas |-> changed_areas, reverted |-> FALSE]

\* fire_many(brain, projectables, area, preserve_brain) on the brain. The
\* explored calls are the ones on a brain whose winners are lists of neurons.
FireOp(projectables, area, preserve_brain) ==
    /\ nfires < MaxFires
    /\ \A a \in Areas : winners[a] # Partial
    /\ IF preserve_brain
       THEN \E e \in FireManyPreserving(Current, projectables, area, bound) :
               /\ Install(e.brain)
               /\ lastFire' = LastFireOf(projectables, area, TRUE, e.changed_areas)
       ELSE \E o \in FireMany(Current, projectables, area) :
               /\ Install(o)
               /\ lastFire' = LastFireOf(projectables, area, FALSE, EmptyDict)
    /\ nfires' = nfires + 1
    /\ UNCHANGED <<scope_vars, identity_vars, operation_vars, recording_vars,
                   twin_vars, kernel_vars>>

\* revert_changes(brain, changed_areas) with the dict the last fire returned,
\* as a reader that preserves the brain calls it.
Revert ==
    /\ lastFire.op = "fire"
    /\ lastFire.preserve_brain
    /\ ~lastFire.reverted
    /\ Install(RevertChanges(Current, lastFire.changed_areas))
    /\ lastFire' = [lastFire EXCEPT !.reverted = TRUE]
    /\ UNCHANGED <<nfires, scope_vars, identity_vars, operation_vars, recording_vars,
                   twin_vars, kernel_vars>>

\* Sampled arguments of fire_many: a stimulus; the parent of z; two
\* assemblies of different areas that share the stimulus as parent; z, whose
\* chain passes through b twice.
FireArguments ==
    { << <<"s">>, "a" >>,
      << <<"y">>, "a" >>,
      << <<"x", "y">>, "a" >>,
      << <<"z">>, "b" >> }

FireNext ==
    \/ \E f \in FireArguments, preserve_brain \in BOOLEAN : FireOp(f[1], f[2], preserve_brain)
    \/ Revert
    \/ \E value \in BOOLEAN : SetPlasticityDisabled(value)

\* Sampled stream of the brain that is fired in: a draw with 0 < p < 1.
FireSeeds == {2}

\* Sampled parts of the brain that is fired in: one winner per area.
FireConfigs == { c \in Configs : c.k["a"] = 1 }

\* A brain that is fired outside any scope, inside its own scope, or inside
\* the scope of the other brain.
InitFire ==
    /\ \E c \in FireConfigs : \E seed \in FireSeeds : EngineInit(c, seed)
    /\ \/ ScopeInit
       \/ \E b \in Brains : ScopeEntered(b)
    /\ LayerInit

\* Calls of fire_many on one brain, with plasticity switched on and off.
SpecFire == InitFire /\ [][FireNext]_vars

(* --------------------------- parts added again ------------------------ *)

\* Connectome._initialize_parts([part]) for a part the connectome holds: the
\* connection from the part into every area and every stimulus, and for an
\* area the connection from every other part into it, is assigned a newly
\* generated matrix, whether the key is in the store or not.
InitializePartsAgain(w, seed, part) ==
    LET from_part == {part} \X Parts
        into_part == IF part \in Areas THEN (Parts \ {part}) \X {part} ELSE {}
    IN  [e \in DOMAIN w \cup from_part \cup into_part |->
            IF e \in from_part \cup into_part
            THEN InitializeConnection(seed, n, e[1], e[2])
            ELSE w[e]]

\* What add_area / add_stimulus leave in the history of the last call.
LastAdd(op, part) ==
    [op |-> op, given |-> FALSE, subEdges |-> {}, replace |-> FALSE, iterations |-> 1,
     part |-> part]

\* Brain.add_area(area) of an area of the brain: the connectome appends the
\* area to its list and initializes the connections of the area, the brain
\* enables area -> area.
AddArea(seed, area) ==
    /\ Len(areas) + Len(stimuli) < MaxParts
    /\ areas' = Append(areas, area)
    /\ W' = InitializePartsAgain(W, seed, area)
    /\ active' = EnableEdge(active, area, area)
    /\ lastCall' = LastAdd("add_area", area)
    /\ UNCHANGED <<n, k, beta, stimuli, winners, plasticity_disabled,
                   lastConn, lastRounds, nrounds, targeted>>
    /\ UNCHANGED <<scope_vars, layer_vars>>

\* Brain.add_stimulus(stimulus) of a stimulus of the brain.
AddStimulus(seed, stimulus) ==
    /\ Len(areas) + Len(stimuli) < MaxParts
    /\ stimuli' = Append(stimuli, stimulus)
    /\ W' = InitializePartsAgain(W, seed, stimulus)
    /\ lastCall' = LastAdd("add_stimulus", stimulus)
    /\ UNCHANGED <<n, k, beta, areas, winners, plasticity_disabled, active,
                   lastConn, lastRounds, nrounds, targeted>>
    /\ UNCHANGED <<scope_vars, layer_vars>>

\* The stream of the kernel of the brains whose parts are added again: p = 1.
StoreSeeds == {1}

StoreNext ==
    \/ \E sub \in Subconnectomes, replace \in BOOLEAN, iterations \in Iterations :
          NextRound(sub, replace, iterations)
    \/ \E seed \in StoreSeeds, area \in Areas : AddArea(seed, area)
    \/ \E seed \in StoreSeeds, stimulus \in Stimuli : AddStimulus(seed, stimulus)

InitStore ==
    /\ \E c \in Configs : \E seed \in StoreSeeds : EngineInit(c, seed)
    /\ ScopeInit
    /\ LayerInit

\* Rounds of a brain and parts added to it.
SpecStore == InitStore /\ [][StoreNext]_vars

(* ------------------------- enabling and disabling --------------------- *)

\* Brain.disable(source, dest) with a destination, on the dict: reading
\* active_connectome[source] creates the key.
DisableEdge(act, source, dest) ==
    [p \in DOMAIN act \cup {source} |->
        IF p = source THEN Get(act, p) \ {dest} ELSE act[p]]

\* Brain.enable(source): every area and every stimulus of the connectome is
\* enabled as a sink.
RECURSIVE EnableSinks(_, _, _)
EnableSinks(act, source, sinks) ==
    IF sinks = {} THEN act
    ELSE LET sink == CHOOSE x \in sinks : TRUE
         IN  EnableSinks(EnableEdge(act, source, sink), source, sinks \ {sink})

\* Brain.disable(source): the loop over the sinks given.
RECURSIVE DisableSinks(_, _, _)
DisableSinks(act, source, sinks) ==
    IF sinks = {} THEN act
    ELSE LET sink == CHOOSE x \in sinks : TRUE
         IN  DisableSinks(DisableEdge(act, source, sink), source, sinks \ {sink})

\* Brain.enable(source), the sinks of the loop: connectome.areas + connectome.stimuli.
EnableAllSinks == Areas \cup Stimuli

\* Brain.disable(source), the sinks of the loop: connectome.areas.
DisableAllSinks == Areas

\* What enable / disable leave in the history of the last call: the source,
\* the destination (None without one), whether no edge from the source was
\* enabled before the call, and whether the call before was enable(source)
\* without a destination in a brain with no edge from the source enabled.
LastEdgeCall(op, source, dest) ==
    [op |-> op, source |-> source, dest |-> dest,
     clean |-> Get(active, source) = {},
     follows |-> /\ lastCall.op = "enable"
                 /\ lastCall.source = source
                 /\ lastCall.dest = None
                 /\ lastCall.clean]

\* The variables an enable or a disable leaves alone.
EdgeFrame ==
    /\ UNCHANGED <<n, k, beta, areas, stimuli, W, winners, plasticity_disabled,
                   lastConn, lastRounds, nrounds, targeted>>
    /\ UNCHANGED <<scope_vars, layer_vars>>

\* brain.enable(source, dest).
Enable(source, dest) ==
    /\ active' = IF dest = None THEN EnableSinks(active, source, EnableAllSinks)
                 ELSE EnableEdge(active, source, dest)
    /\ lastCall' = LastEdgeCall("enable", source, dest)
    /\ EdgeFrame

\* brain.disable(source, dest).
Disable(source, dest) ==
    /\ active' = IF dest = None THEN DisableSinks(active, source, DisableAllSinks)
                 ELSE DisableEdge(active, source, dest)
    /\ lastCall' = LastEdgeCall("disable", source, dest)
    /\ EdgeFrame

EdgeNext ==
    \/ \E source \in Parts, dest \in Parts \cup {None} : Enable(source, dest)
    \/ \E source \in Parts, dest \in Parts \cup {None} : Disable(source, dest)

InitEdges ==
    /\ \E c \in Configs : EngineInit(c, 0)
    /\ ScopeInit
    /\ LayerInit

\* The edges of a brain enabled and disabled.
SpecEdges == InitEdges /\ [][EdgeNext]_vars

(* ----------------------- kernel with its workers ---------------------- *)

\* A slip: the step rounded down.
StepFloor(h, t) == h \div t

\* RandomMatrix._multi_params: step = ceil(height / threads).
Step(h, t) == (h + t - 1) \div t

\* _multi_params, the arguments first and last of worker i (from 0).
First(i) == i * Step(height, threads)
Last(i) == (i + 1) * Step(height, threads)

\* _multi_generate: the rows of out[first:last], a slice, which numpy cuts at
\* the height of the array.
Band(i) == { r \in Indices(height) : First(i) <= r /\ r < Last(i) }

\* The worker has written every row of its slice.
Finished(i) == \A r \in Band(i) : r < row[i + 1]

\* Everything but the kernel.
rest_vars == <<engine_vars, scope_vars, identity_vars, operation_vars,
               recording_vars, twin_vars, fire_vars>>

\* Multithreaded.__call__, the loop: the next worker is handed to the executor
\* with its parameters.
Submit ==
    /\ ~returned
    /\ submitted < threads
    /\ submitted' = submitted + 1
    /\ row' = Append(row, First(submitted))
    /\ UNCHANGED <<height, threads, writes, returned, rest_vars>>

\* _multi_generate in worker i: the next row of out[first:last] is assigned,
\* every entry of it at once.
WorkerWrite(i) ==
    /\ i < submitted
    /\ row[i + 1] \in Band(i)
    /\ writes' = [writes EXCEPT ![row[i + 1]] = @ + 1]
    /\ row' = [row EXCEPT ![i + 1] = @ + 1]
    /\ UNCHANGED <<height, threads, submitted, returned, rest_vars>>

\* Multithreaded.__call__: concurrent.futures.wait(futures) has returned, the
\* matrix is handed back by _multi_generate_after.
Return ==
    /\ ~returned
    /\ submitted = threads
    /\ \A i \in Indices(threads) : Finished(i)
    /\ returned' = TRUE
    /\ UNCHANGED <<height, threads, submitted, row, writes, rest_vars>>

KernelNext ==
    \/ Submit
    \/ \E i \in Indices(threads) : WorkerWrite(i)
    \/ Return

\* multi_generate(height, width, prob) is called on a kernel with threads
\* workers: out = np.empty((height, width)), nothing written yet.
KernelInit ==
    /\ height \in 0 .. MaxHeight
    /\ threads \in 1 .. MaxThreads
    /\ submitted = 0
    /\ row = <<>>
    /\ writes = [r \in Indices(height) |-> 0]
    /\ returned = FALSE

InitKernel ==
    /\ \E c \in Configs : EngineInit(c, 0)
    /\ ScopeInit
    /\ IdentityInit
    /\ OperationInit
    /\ RecordingInit
    /\ NoTwin
    /\ FireInit
    /\ KernelInit

\* One call of the kernel and its workers.
SpecKernel == InitKernel /\ [][KernelNext]_vars

(* ------------------------- projection claims -------------------------- *)

\* A step that is exactly one projection round; lastConn' holds its edges.
OneRound == nrounds' = nrounds + 1

\* The sources of a destination in the round a step performed.
RoundSources == SourcesMapping(lastConn')

\* C1: after any completed projection round, every area that was a
\* destination of the round holds exactly k distinct winner indices, all of
\* them within 0..n-1 (lastConn holds the edges of the round last completed).
C1_WinnersQuota ==
    lastCall.op \in {"next_round", "project"} =>
        \A a \in DOMAIN SourcesMapping(lastConn) :
            /\ Cardinality(winners[a]) = k[a]
            /\ winners[a] \subseteq Indices(n[a])

\* Both areas were destinations of the last round, one of them fed by an
\* area that held more winners than its quota when the round started.
C1_Witness ==
    /\ lastCall.op \in {"next_round", "project"}
    /\ DOMAIN SourcesMapping(lastConn) = Areas
    /\ nrounds = MaxRounds
    /\ Cardinality(winners["a"]) = 2
    /\ winners["b"] # {}

\* C2: in one round with plasticity enabled, exactly the entries (i, j) of
\* the round's connections with i among the firing neurons of the source (all
\* of a stimulus, the winners an area has when the round starts) and j among
\* the new winners of the destination are multiplied by 1 + beta, once; every
\* other entry of every connection keeps its value.
C2_PlasticityRule ==
    [][(OneRound /\ ~plasticity_disabled) =>
        \A e \in DOMAIN W : \A i \in DOMAIN W[e] : \A j \in DOMAIN W[e][i] :
            W'[e][i][j] =
                IF /\ e \in Edges(lastConn')
                   /\ i \in (IF e[1] \in Stimuli THEN Indices(n[e[1]]) ELSE winners[e[1]])
                   /\ j \in winners'[e[2]]
                THEN W[e][i][j] * (1 + ConnectionBeta(e[1], e[2]))
                ELSE W[e][i][j]]_vars

\* An entry of a stimulus connection has been multiplied twice and another
\* entry of the same row not at all; an entry of an area-to-area connection
\* has been multiplied once and another entry of the same column not at all.
C2_Witness ==
    /\ ~plasticity_disabled
    /\ nrounds = 2
    /\ beta["a"] > 0
    /\ \E i \in DOMAIN W[<<"s", "a">>] : \E j, j2 \in DOMAIN W[<<"s", "a">>][i] :
          /\ W[<<"s", "a">>][i][j] = (1 + beta["a"]) * (1 + beta["a"])
          /\ W[<<"s", "a">>][i][j2] = 1
    /\ \E i, i2 \in DOMAIN W[<<"a", "b">>] : \E j \in DOMAIN W[<<"a", "b">>][i] :
          /\ W[<<"a", "b">>][i][j] = 1 + beta["a"]
          /\ W[<<"a", "b">>][i2][j] = 1

\* C3: no weight entry ever decreases, in any step and whatever the betas.
C3_WeightsMonotone ==
    [][\A e \in DOMAIN W : \A i \in DOMAIN W[e] : \A j \in DOMAIN W[e][i] :
            W'[e][i][j] >= W[e][i][j]]_vars

\* Some entry has grown beyond its initial value and a coefficient is zero.
C3_Witness ==
    /\ beta["b"] = 0
    /\ \E e \in DOMAIN W : \E i \in DOMAIN W[e] : \E j \in DOMAIN W[e][i] : W[e][i][j] > 2

\* The first q indices when ordered by input descending, then index ascending.
LowestIndexTopK(inputs, m, q) ==
    { i \in Indices(m) :
        Cardinality({ j \in Indices(m) :
                        \/ inputs[j] > inputs[i]
                        \/ inputs[j] = inputs[i] /\ j < i }) < q }

\* C4: the new winners of every destination are the k indices with the
\* largest inputs, ties broken in favour of the lower index.
C4_LowerIndexFirst ==
    [][OneRound =>
        \A d \in DOMAIN RoundSources :
            winners'[d] = LowestIndexTopK(PrevWinnerInputs(W, winners, d, RoundSources[d]),
                                          n[d], k[d])]_vars

\* C5: the inputs of every destination of a round are computed from the
\* winners as they were before the round, also those of an area whose source
\* is a destination of the same round.
C5_PreRoundSnapshot ==
    [][OneRound =>
        \A d \in DOMAIN RoundSources :
            LET input == [j \in Indices(n[d]) |->
                            SumOver(RoundSources[d] \cap Areas,
                                    [src \in RoundSources[d] \cap Areas |->
                                        SumOver(winners[src],
                                                [x \in winners[src] |-> W[<<src, d>>][x][j]])])
                          + SumOver(RoundSources[d] \cap Stimuli,
                                    [stim \in RoundSources[d] \cap Stimuli |->
                                        SumOver(Indices(n[stim]),
                                                [i \in Indices(n[stim]) |-> W[<<stim, d>>][i][j]])])]
            IN  /\ Cardinality(winners'[d]) = k[d]
                /\ \A x \in winners'[d] : \A y \in Indices(n[d]) \ winners'[d] :
                      input[x] >= input[y]]_vars

\* A round s -> a, a -> b has run with plasticity off, and the winners b
\* received are not a choice the winners a received would have allowed.
C5_Witness ==
    /\ plasticity_disabled
    /\ lastRounds = 1
    /\ {<<"s", "a">>, <<"a", "b">>} \subseteq Edges(lastConn)
    /\ winners["b"] \notin ProjectInto(W, winners, "b", SourcesMapping(lastConn)["b"])

\* C6: the multiplier a round applies to a connection is 1 + beta of the
\* destination when the source is a stimulus and 1 + beta of the source when
\* the source is an area, the beta the connection itself reports.
C6_EffectiveBeta ==
    [][OneRound =>
        \A e \in DOMAIN W : \A i \in DOMAIN W[e] : \A j \in DOMAIN W[e][i] :
            LET b == IF e[1] \in Stimuli THEN beta[e[2]] ELSE beta[e[1]]
            IN  /\ b = ConnectionBeta(e[1], e[2])
                /\ W'[e][i][j] # W[e][i][j] => W'[e][i][j] = W[e][i][j] * (1 + b)]_vars

\* Both kinds of connection have been strengthened, with different betas at
\* their two ends.
C6_Witness ==
    /\ beta["a"] # beta["b"]
    /\ beta["s"] # beta["a"]
    /\ \E i \in DOMAIN W[<<"a", "b">>] : \E j \in DOMAIN W[<<"a", "b">>][i] :
          W[<<"a", "b">>][i][j] = 1 + beta["a"]
    /\ \E i \in DOMAIN W[<<"s", "a">>] : \E j \in DOMAIN W[<<"s", "a">>][i] :
          W[<<"s", "a">>][i][j] = 1 + beta["a"]

(* ---------------------------- brain claims ---------------------------- *)

\* C7: next_round with a subconnectome and replace = false leaves the
\* brain's active edge set as it was before the call.
C7_ActiveRestored ==
    [][(nrounds' # nrounds /\ lastCall'.given /\ ~lastCall'.replace) =>
        active' = active]_vars

\* C8: next_round with replace = true and a given subconnectome runs its
\* rounds with exactly the edges of that subconnectome.
C8_ReplaceUsesSubconnectome ==
    (lastCall.op = "next_round" /\ lastCall.given /\ lastCall.replace) =>
        Edges(lastConn) = lastCall.subEdges

\* C9: next_round with iterations = R performs exactly R rounds.
C9_IterationsRounds ==
    lastCall.op = "next_round" => lastRounds = lastCall.iterations

(* ---------------------------- scope claims ---------------------------- *)

\* C10: entering a brain's scope binds 'brain' on every area and assembly of
\* its recipe to that brain, and leaving the innermost open scope restores
\* every binding to what it was just before that scope was entered, at any
\* depth of properly nested scopes of the same or of different brains.
C10_ScopeRestores ==
    [][/\ Len(open') > Len(open) =>
            \A p \in RecipeAreas[open'[Len(open')].brain]
                     \cup RecipeAssemblies[open'[Len(open')].brain] :
                bound'[p] = open'[Len(open')].brain
       /\ (Len(open') < Len(open) /\ proper') =>
            bound' = open[Len(open)].before]_vars

\* B2 has been entered, inside it B1 has been entered and left, B2 is still
\* open: the parts the two recipes share are bound to B2 again, the assembly
\* only B1 holds is unbound again.
C10_Witness ==
    /\ trace = << <<"enter", "B2">>, <<"enter", "B1">>, <<"exit", "B1">> >>
    /\ bound["a"] = "B2"
    /\ bound["b"] = "B2"
    /\ bound["y"] = "B2"
    /\ bound["z"] = Unbound

\* C11: an exit of a scope that is not the innermost open one is rejected and
\* changes no binding, and no part is ever left bound to a brain that has no
\* open scope.
C11_ScopeMisuseRejected ==
    [][/\ (Len(open') < Len(open) /\ open[Len(open)].brain # trace'[Len(trace')][2])
            => bound' = bound
       /\ \A p \in Bindables :
            bound'[p] # Unbound => \E i \in 1 .. Len(open') : open'[i].brain = bound'[p]]_vars

(* --------------------------- identity claims -------------------------- *)

\* The parents of an assembly as a multiset: uid -> number of occurrences.
ParentBag(parents) ==
    [u \in { parents[i] : i \in 1 .. Len(parents) } |->
        Cardinality({ i \in 1 .. Len(parents) : parents[i] = u })]

\* C12: two assemblies have the same identity if and only if they have the
\* same area and the same multiset of parents.
C12_IdentityIffSameStructure ==
    \A i, j \in 1 .. Len(created) :
        (created[i].uid = created[j].uid)
            <=> (/\ created[i].area = created[j].area
                 /\ ParentBag(created[i].parents) = ParentBag(created[j].parents))

\* merge((x, y), D) and merge((y, x), D) of two different assemblies have been
\* built and are the same assembly, and x differs from y.
C12_Witness ==
    /\ Len(created) = 3
    /\ created[1].parents = <<StimulusUid>>
    /\ created[2].parents = <<created[1].uid, StimulusUid>>
    /\ created[3].parents = <<StimulusUid, created[1].uid>>
    /\ created[2].area = created[3].area
    /\ created[2].uid = created[3].uid
    /\ created[1].uid # created[2].uid

(* --------------------------- operation claims ------------------------- *)

\* C13: merge in a brain runs exactly brain.repeat rounds, every one with
\* exactly the edges parent area -> target, and the first round starts with
\* the winners of the area of every parent equal to what that parent was
\* identified as.
C13_MergeFiresParents ==
    lastOp.op = "merge" =>
        /\ lastRounds = repeat
        /\ Edges(lastConn) = { <<AssemblyArea[lastOp.a[i]], lastOp.area>> : i \in 1 .. Len(lastOp.a) }
        /\ \A i \in 1 .. Len(lastOp.a) :
              lastOp.start[AssemblyArea[lastOp.a[i]]] = lastOp.identified[i]

\* The merges one after the other that associate is said to perform:
\* merge((x, y), x.area) for every pair.
RECURSIVE MergePairs(_, _, _)
MergePairs(S, pairs, rep) ==
    IF pairs = <<>> THEN S
    ELSE MergePairs(UNION { MergeIn(st, <<Head(pairs)[1], Head(pairs)[2]>>,
                                    AssemblyArea[Head(pairs)[1]], rep) : st \in S },
                    Tail(pairs), rep)

\* C14: associate(A, B) has the effect on winners and weights of merge((x, y),
\* x.area) performed for each pair of A x B.
C14_AssociateIsMerges ==
    [][(nops' = nops + 1 /\ lastOp'.op = "associate") =>
        \E o \in MergePairs({Current}, Product(lastOp'.a, lastOp'.b), repeat) :
            /\ W' = o.W
            /\ winners' = o.winners]_vars

\* C15: read(area) returns an assembly only if its overlap is the largest
\* among the assemblies of the area and reaches the threshold, whatever
\* positive value the threshold has; when the area has no assembly, or the
\* best overlap is zero, it reports no match: it neither returns an assembly
\* nor fails.
C15_ReadBelowThresholdIsNoMatch ==
    lastOp.op = "read" =>
        /\ lastRead.kind \in {"assembly", "no match"}
        /\ lastRead.kind = "assembly" => (lastRead.score = lastRead.best /\ lastRead.score[1] > 0)
        /\ AreaAssemblyMapping[FiredBrain][lastOp.area] = {} => lastRead.kind = "no match"

(* --------------------------- recording claims ------------------------- *)

\* The calls Recording.play itself made during the last bake, in order.
IsPlayed(item) == item.by = "play"
Replayed == SelectSeq(played, IsPlayed)

\* C16: replaying a recording invokes the recorded entries in the order they
\* were recorded, each with its stored positional arguments, and passes the
\* brain supplied at replay time, also to an entry that stores a brain
\* keyword of its own.
C16_ReplayKeywordOverrides ==
    lastBake.brain # NoBrain =>
        /\ Len(Replayed) >= Len(lastBake.before)
        /\ \A i \in 1 .. Len(lastBake.before) :
              /\ Replayed[i].function = lastBake.before[i].function
              /\ Replayed[i].self = lastBake.before[i].self
              /\ Replayed[i].positional_arguments = lastBake.before[i].positional_arguments
              /\ Replayed[i].brain = lastBake.brain

\* C17: when an operation is replayed by bake the new brain holds every area
\* and stimulus of the recipe, every replayed operation runs in a brain whose
\* repeat is train_repeat, and the brain bake returns has repeat
\* effective_repeat.
C17_BakeRepeats ==
    lastBake.brain # NoBrain =>
        /\ \A i \in 1 .. Len(Replayed) :
              /\ Replayed[i].parts = RecipeParts
              /\ Replayed[i].repeat = lastBake.train_repeat
        /\ baked[lastBake.brain].repeat = lastBake.effective_repeat

\* C18: a bake leaves the sequence of entries of the recording unchanged,
\* whatever was recorded and whether or not the recipe's scope is open.
C18_BakeKeepsRecording ==
    [][Len(baked') > Len(baked) => actions' = actions]_vars

(* ---------------------------- support claims -------------------------- *)

\* C19: the brain has a support, a set of indices for every area; across
\* every step support(a) contains the winners of a, keeps every index it
\* had, and in a step of one round into a its size grows by exactly the
\* number of the round's winners that were not in it before.
C19_SupportIsEverWon ==
    [][/\ support # None
       /\ \A a \in Areas :
            /\ winners'[a] \subseteq support'[a]
            /\ support[a] \subseteq support'[a]
            /\ (OneRound /\ a \in DOMAIN RoundSources) =>
                  Cardinality(support'[a]) =
                      Cardinality(support[a]) + Cardinality(winners'[a] \ support[a])]_vars

(* ---------------------------- two-bake claims ------------------------- *)

\* C20: two brains baked from the same recipe with the same p, seed and
\* train_repeat have identical connection matrices after bake, and after
\* every one of the same operations applied to both they have identical
\* weights and identical winners.
C20_BakesAgree ==
    /\ twinW = W
    /\ twinWinners = winners

(* --------------------------- round order claims ----------------------- *)

\* C21: in one round with plasticity enabled the new winners of every
\* destination are in the winners map before any weight is multiplied: for a
\* fired area-to-area connection whose source is itself a destination of the
\* round, the rows multiplied are those of the winners the source has after
\* the round, and no other row of that connection changes.
C21_CommitBeforePlasticity ==
    [][(OneRound /\ ~plasticity_disabled) =>
        \A e \in Edges(lastConn') :
            (e[1] \in Areas /\ e[1] \in DOMAIN RoundSources) =>
                \A i \in DOMAIN W[e] : \A j \in DOMAIN W[e][i] :
                    W'[e][i][j] =
                        IF i \in winners'[e[1]] /\ j \in winners'[e[2]]
                        THEN W[e][i][j] * (1 + ConnectionBeta(e[1], e[2]))
                        ELSE W[e][i][j]]_vars

(* ------------------------------ fire claims --------------------------- *)

\* The areas the layer gives for a key (none when the key is absent).
AreasOf(layer, key) == LayerGet(layer, key)

\* The assemblies among the keys of a layer.
AssembliesOf(layer) ==
    { layer[i][1] : i \in 1 .. Len(layer) } \cap AssemblyNames

\* The parents of an assembly as a set.
ParentsOf(ass) == { AssemblyParents[ass][i] : i \in 1 .. Len(AssemblyParents[ass]) }

\* C22: in the layers of a fire, the layer above a layer L maps every parent
\* p of every assembly c of L to areas that include c.area, also a parent
\* shared by several assemblies of L.
C22_ParentsMappedToAllChildren ==
    lastFire.op = "fire" =>
        \A l \in 1 .. Len(lastFire.layers) - 1 :
            \A c \in AssembliesOf(lastFire.layers[l]) :
                \A parent \in ParentsOf(c) :
                    AssemblyArea[c] \in AreasOf(lastFire.layers[l + 1], parent)

\* The longest parent path from a projectable up to a stimulus.
RECURSIVE Depth(_)
Depth(projectable) ==
    IF projectable \in Stimuli THEN 0
    ELSE 1 + (CHOOSE m \in { Depth(q) : q \in ParentsOf(projectable) } :
                \A d \in { Depth(q) : q \in ParentsOf(projectable) } : m >= d)

\* The part whose winners (or neurons) fire when a projectable is fired.
SourceOf(projectable) ==
    IF projectable \in Stimuli THEN projectable ELSE AssemblyArea[projectable]

\* C23: a fire ends with a top layer that holds only stimuli, the number of
\* layers is one more than the longest parent path of the projectables, and
\* for every assembly c of a layer every edge from a parent of c into c.area
\* is among the edges of a round strictly earlier than the round that fires
\* the layer of c.
C23_LayersFiredTopDown ==
    lastFire.op = "fire" =>
        LET layers == lastFire.layers
            depth == Len(layers)
            top == layers[depth]
        IN  /\ \A i \in 1 .. Len(top) : top[i][1] \in Stimuli
            /\ \E q \in { lastFire.projectables[i] : i \in 1 .. Len(lastFire.projectables) } :
                  /\ depth = 1 + Depth(q)
                  /\ \A i \in 1 .. Len(lastFire.projectables) :
                        Depth(lastFire.projectables[i]) <= Depth(q)
            /\ Len(lastFire.conns) = depth
            /\ \A l \in 1 .. depth : \A c \in AssembliesOf(layers[l]) :
                  \A parent \in ParentsOf(c) :
                      \E r \in 1 .. depth - l :
                          <<SourceOf(parent), AssemblyArea[c]>> \in Edges(lastFire.conns[r])

\* C24: every layer of a fire is fired by exactly one round whose edges
\* include all edges of the layer, and an edge that was not enabled before the
\* fire started is not enabled once the fire has completed.
C24_LayerEdgesDisabledAfterwards ==
    lastFire.op = "fire" =>
        /\ Len(lastFire.conns) = Len(lastFire.layers)
        /\ nrounds - lastFire.rounds = Len(lastFire.layers)
        /\ \A r \in 1 .. Len(lastFire.mappings) :
              Edges(lastFire.mappings[r]) \subseteq Edges(lastFire.conns[r])
        /\ Edges(active) \subseteq Edges(lastFire.active)

\* C25: once a preserve-brain fire has returned and its snapshots are
\* reinstated, the winners of every area equal their values before the fire,
\* also for an area that is a target in more than one layer.
C25_PreserveRestoresWinners ==
    (lastFire.op = "fire" /\ lastFire.preserve_brain /\ lastFire.reverted) =>
        \A area \in Areas : winners[area] = lastFire.winners[area]

RECURSIVE Power(_, _)
Power(base, m) == IF m = 0 THEN 1 ELSE base * Power(base, m - 1)

\* C27: across add_area, add_stimulus and rounds a connection of the store is
\* never removed and never re-initialized: an entry changes only in a round,
\* by plasticity multiplications, also when a part of the brain is added again.
C27_StoreAppendOnly ==
    [][\A e \in DOMAIN W :
          /\ e \in DOMAIN W'
          /\ \A i \in DOMAIN W[e] : \A j \in DOMAIN W[e][i] :
                \/ W'[e][i][j] = W[e][i][j]
                \/ /\ lastCall'.op = "next_round"
                   /\ \E m \in 1 .. lastRounds' :
                         W'[e][i][j] = W[e][i][j] * Power(1 + UpdateBeta(e[1], e[2]), m)]_vars

(* ------------------------------ edge claims --------------------------- *)

\* C30: enable(source) without a destination followed by disable(source)
\* without a destination, from a brain in which no edge from source is
\* enabled, leaves no edge from source enabled.
C30_EnableDisableRoundTrip ==
    (lastCall.op = "disable" /\ lastCall.dest = None /\ lastCall.follows)
        => Get(active, lastCall.source) = {}

(* ------------------------- edges kept by a fire ----------------------- *)

\* C29: an edge that is enabled before a fire is still enabled after the fire
\* has completed, also when the edge is one of the edges the fire uses for a
\* layer.
C29_FireKeepsEnabledEdges ==
    [][(nfires' = nfires + 1) => Edges(active) \subseteq Edges(active')]_vars

\* A fire has completed that used, as an edge of one of its layers, a
\* self-loop that was enabled before it.
C29_Witness ==
    /\ lastFire.op = "fire"
    /\ \E r \in 1 .. Len(lastFire.mappings) :
          \E e \in Edges(lastFire.mappings[r]) \cap Edges(lastFire.active) :
              e[1] = e[2] /\ e \in Edges(active)

(* ----------------------------- kernel claims -------------------------- *)

\* C28: the row bands of the workers are pairwise disjoint and together cover
\* every row of the matrix; no row is written more than once in any
\* interleaving, and when the matrix is returned every worker has finished
\* and every row has been written exactly once.
C28_BandsPartitionRows ==
    /\ \A i, j \in Indices(threads) : i # j => Band(i) \cap Band(j) = {}
    /\ UNION { Band(i) : i \in Indices(threads) } = Indices(height)
    /\ \A r \in Indices(height) : writes[r] <= 1
    /\ returned =>
          /\ \A i \in Indices(threads) : i < submitted /\ Finished(i)
          /\ \A r \in Indices(height) : writes[r] = 1

\* The matrix has been returned by several workers whose number does not
\* divide the height, the last band being shorter than the others.
C28_Witness ==
    /\ returned
    /\ threads > 1
    /\ height > threads
    /\ height % threads # 0
    /\ \A r \in Indices(height) : writes[r] = 1

====
